---------------------------- MODULE Spec2Model ----------------------------
(***************************************************************************)
(* State-machine model of pycybergear/CyberGear.py: the CyberGear class,   *)
(* its serial transport steps (_write_port, _read_port), the frame         *)
(* transcoder (_can_to_uart, _uart_to_can), the arbitration-ID packing of  *)
(* _send_can, the reply decoder _reply_state and the public operations.    *)
(*                                                                         *)
(* Bytes are naturals, frames and envelopes are sequences of bytes.  A     *)
(* public operation is a sequence of steps (exchanges and control steps)   *)
(* that the host executes one transport call at a time, interleaved with   *)
(* the device delivering reply bytes into the serial input buffer.         *)
(***************************************************************************)
EXTENDS Integers, Sequences, FiniteSets, TLC

\* ------------------------------------------------------------------------
\* Bounds of the model (not program constants)
\* ------------------------------------------------------------------------

\* largest number of replies the device side may have in flight
MaxWire == 1

\* the byte offset at which a reply delivered in two bursts is split
SplitAt == 8

\* the device ids the operations are called with
CallIds == {1}

\* a device id beyond MOTOR_NUM that some operations are called with as well
FarIds == {128}

\* the device ids embedded in the replies the device side may send
ReplyIds == {0, 1, 2, 128}

\* the status bytes (mode bits 6-7, fault bits 0-5) of those replies
ReplyStatus == {128}

\* the device id the calls of the line scenarios address
LineId == 1

\* the status bytes and the 16-bit position fields of the replies of the decode scenarios
StatusBytes == {0, 1, 32, 63, 64, 129, 128, 192, 255}

PosFields == {0, 1, 32767, 32768, 65535}

\* the logical frames of the transcoder scenarios: opcodes, sender_tag bytes, device
\* ids and payloads
CodecOpcodes == {0, 2, 18, 31}

CodecTagBytes == {0, 1, 32, 255}

CodecIds == {0, 1, 32, 127}

CodecPayloads == { <<0, 0, 0, 0, 0, 0, 0, 0>>, <<1, 2, 3, 4, 5, 6, 7, 255>> }

\* the inputs of the quantizer lie at the fractions k/QuantDen of the range, k from -1
\* (below the range) to QuantDen + 1 (above it), and at the first half steps
QuantDen == 7

QuantBits == 16

\* the integer tags are packed for the values within ScalarSpread of 0 and of the
\* least and the greatest value of the tag, those just outside the tag included
ScalarSpread == 2

\* the arguments <<pos, vel, tff, kp, kd>> impedance_control is called with: zero,
\* values inside the ranges, and values beyond them at either end
ImpArgs ==
    { <<0, 0, 0, 0, 0>>, <<90, 100, 6, 250, 1>>, <<-1000, 400, -20, 600, 9>>,
      <<1000, -400, 20, 100, 2>> }

\* the property indices _write_prop and _read_prop are called with: the two sides of
\* the 0x7000 boundary (0x6FFF, 0x7000)
PropIndexes == {28671, 28672}

\* the data_type arguments of those calls: two tags of type_list and one outside it
PropTags == {"u16", "f", "u64"}

\* ------------------------------------------------------------------------
\* Program constants
\* ------------------------------------------------------------------------

\* self.MOTOR_NUM
MOTOR_NUM == 127

\* i = 5000 in _read_port: the poll budget
PollBudget == 5000

\* the num argument _receive_can passes to _read_port
ReadNum == 16

\* ------------------------------------------------------------------------
\* Bit operations on naturals (Python's &, |, <<, >>)
\* ------------------------------------------------------------------------

RECURSIVE BitAnd(_, _)
BitAnd(a, b) ==
    IF a = 0 \/ b = 0 THEN 0
    ELSE ((a % 2) * (b % 2)) + 2 * BitAnd(a \div 2, b \div 2)

RECURSIVE BitOr(_, _)
BitOr(a, b) ==
    IF a = 0 THEN b
    ELSE IF b = 0 THEN a
    ELSE (IF (a % 2) + (b % 2) > 0 THEN 1 ELSE 0) + 2 * BitOr(a \div 2, b \div 2)

RECURSIVE Pow2(_)
Pow2(n) == IF n = 0 THEN 1 ELSE 2 * Pow2(n - 1)

Shl(a, n) == a * Pow2(n)

Shr(a, n) == a \div Pow2(n)

\* ------------------------------------------------------------------------
\* Exact rationals <<numerator, denominator>> for the float arithmetic
\* ------------------------------------------------------------------------

Abs(x) == IF x < 0 THEN -x ELSE x

RECURSIVE Gcd(_, _)
Gcd(a, b) == IF b = 0 THEN a ELSE Gcd(b, a % b)

Rat(n, d) ==
    LET g == Gcd(Abs(n), Abs(d))
        s == IF d < 0 THEN -1 ELSE 1
    IN  IF n = 0 THEN <<0, 1>> ELSE <<(s * n) \div g, (s * d) \div g>>

\* sums and products reduce before they multiply, to keep the numbers small
RAdd(p, q) ==
    LET g == Gcd(p[2], q[2])
    IN  Rat(p[1] * (q[2] \div g) + q[1] * (p[2] \div g), p[2] * (q[2] \div g))

RSub(p, q) == RAdd(p, <<-q[1], q[2]>>)

RMul(p, q) ==
    LET g == Gcd(Abs(p[1]), q[2])
        h == Gcd(Abs(q[1]), p[2])
    IN  Rat((p[1] \div g) * (q[1] \div h), (p[2] \div h) * (q[2] \div g))

RDiv(p, q) == Rat(p[1] * q[2], p[2] * q[1])

RInt(n) == <<n, 1>>

\* a rational times a named irrational conversion factor (RAD_DEG, RAD_S_R_MIN)
Scaled(q, k) == IF q[1] = 0 THEN <<0, 1, "1">> ELSE <<q[1], q[2], k>>

\* self.P_MIN .. self.T_MAX
P_MIN == <<-25, 2>>

P_MAX == <<25, 2>>

V_MIN == <<-30, 1>>

V_MAX == <<30, 1>>

T_MIN == <<-12, 1>>

T_MAX == <<12, 1>>

\* _uint_to_float that divides by 2^bits instead of 2^bits - 1
_uint_to_float_pow(x, x_min, x_max, bits) ==
    LET span   == Pow2(bits)
        offset == RSub(x_max, x_min)
        xc     == IF x > span THEN span ELSE IF x < 0 THEN 0 ELSE x
    IN  RAdd(RDiv(RMul(offset, RInt(xc)), RInt(span)), x_min)

\* _uint_to_float: offset*x/span + x_min, x clamped to 0..2^bits - 1
_uint_to_float(x, x_min, x_max, bits) ==
    LET span   == Pow2(bits) - 1
        offset == RSub(x_max, x_min)
        xc     == IF x > span THEN span ELSE IF x < 0 THEN 0 ELSE x
    IN  RAdd(RDiv(RMul(offset, RInt(xc)), RInt(span)), x_min)

\* ------------------------------------------------------------------------
\* Frame transcoder
\* ------------------------------------------------------------------------

Zeros(n) == [k \in 1..n |-> 0]

\* data[a:] of a Python list (0-based a)
Tail0(s, a) == IF a >= Len(s) THEN <<>> ELSE SubSeq(s, a + 1, Len(s))

\* _can_to_uart that copies one byte less into the envelope
_can_to_uart_short(model, data) ==
    IF model = "DR"
    THEN IF Len(data) = 13 /\ data[1] = 8
         THEN <<170, 1, 0, 8>> \o SubSeq(data, 2, 12) \o <<0>>
         ELSE <<>>
    ELSE IF model = "CAN"
    THEN IF Len(data) = 13 /\ data[5] = 8
         THEN <<65, 84>> \o SubSeq(data, 1, 12) \o <<0, 13, 10>>
         ELSE <<65, 84, 0, 0, 0, 0, 8, 0, 0, 0, 0, 0, 0, 0, 0, 13, 10>>
    ELSE <<>>

\* _can_to_uart: 13-byte CAN message -> serial envelope
_can_to_uart(model, data) ==
    IF model = "DR"
    THEN IF Len(data) = 13 /\ data[1] = 8
         THEN <<170, 1, 0, 8>> \o SubSeq(data, 2, 13)
         ELSE <<>>
    ELSE IF model = "CAN"
    THEN IF Len(data) = 13 /\ data[5] = 8
         THEN <<65, 84>> \o data \o <<13, 10>>
         ELSE <<65, 84, 0, 0, 0, 0, 8, 0, 0, 0, 0, 0, 0, 0, 0, 13, 10>>
    ELSE <<>>

\* _uart_to_can that checks the length only, not the DLC marker
_uart_to_can_nodlc(model, data) ==
    IF model = "DR"
    THEN IF Len(data) = 16 THEN <<8>> \o SubSeq(data, 5, 16) ELSE <<>>
    ELSE IF Len(data) = 17 THEN SubSeq(data, 3, 15) ELSE <<>>

\* _uart_to_can: serial envelope -> 13-byte CAN message, <<>> (and READ_FLAG = -1) when rejected
_uart_to_can(model, data) ==
    IF model = "DR"
    THEN IF Len(data) = 16 /\ data[4] = 8
         THEN <<8>> \o SubSeq(data, 5, 16)
         ELSE <<>>
    ELSE IF Len(data) = 17 /\ data[7] = 8
         THEN SubSeq(data, 3, 15)
         ELSE <<>>

\* the 13-byte cdata that _send_can builds
_send_can_cdata(model, id_num, cmd_mode, cmd_data, data) ==
    IF model = "DR"
    THEN <<8, cmd_mode, cmd_data[2], cmd_data[1], id_num>> \o SubSeq(data, 1, 8)
    ELSE << BitOr(Shl(cmd_mode, 3), Shr(cmd_data[2], 5)),
            BitOr(Shl(cmd_data[2], 3), Shr(cmd_data[1], 5)),
            BitAnd(BitOr(Shl(cmd_data[1], 3), Shr(id_num, 5)), 255),
            BitOr(Shl(id_num, 3), 4),
            8 >> \o SubSeq(data, 1, 8)

\* the envelope _send_can hands to _write_port
_send_can(model, id_num, cmd_mode, cmd_data, data) ==
    _can_to_uart(model, _send_can_cdata(model, id_num, cmd_mode, cmd_data, data))

\* serial.write(list) converts with bytes(bytearray(list)): ValueError beyond 0..255
Writable(udata) == \A k \in 1..Len(udata) : udata[k] \in 0..255


\* ------------------------------------------------------------------------
\* _format_data, encode direction (struct.pack, little endian, padded to 4 bytes)
\* ------------------------------------------------------------------------

type_list == <<"u8", "s8", "u16", "s16", "u32", "s32", "f">>

\* type_list.index(data_type): 0-based position, -1 stands for ValueError
type_index(data_type) ==
    IF \E k \in 1..Len(type_list) : type_list[k] = data_type
    THEN (CHOOSE k \in 1..Len(type_list) : type_list[k] = data_type) - 1
    ELSE -1

\* s_f[0]: the byte width of a tag, 0 for an unknown tag
TagWidth(f) ==
    IF f \in {"u8", "s8"} THEN 1
    ELSE IF f \in {"u16", "s16"} THEN 2
    ELSE IF f \in {"u32", "s32", "f"} THEN 4
    ELSE 0

TagSigned(f) == f \in {"s8", "s16", "s32"}

\* An integer value is kept in two parts, <<hi, lo>> for hi * 65536 + lo with lo in
\* 0..65535, so that the 32-bit tags can be followed up to their limits.
Wide(v) == <<v \div 65536, v % 65536>>

WideAdd(wv, k) == <<wv[1] + ((wv[2] + k) \div 65536), (wv[2] + k) % 65536>>

\* struct.pack of an integer in range: the low w bytes of its two's complement, low
\* byte first
WideBytes(wv, w) ==
    LET hi == wv[1] % 65536
    IN  SubSeq(<<wv[2] % 256, wv[2] \div 256, hi % 256, hi \div 256>>, 1, w)

RECURSIVE Log2(_)
Log2(a) == IF a <= 1 THEN 0 ELSE 1 + Log2(a \div 2)

\* a plain number as a value <<numerator, denominator, unit>>
Num(n) == <<n, 1, "1">>

\* int(value) of Python: truncation toward zero
IntOf(value) ==
    IF value[1] >= 0 THEN value[1] \div value[2] ELSE -((-value[1]) \div value[2])

\* the 4 little-endian bytes struct.pack('f', value) yields: exact for integers of
\* magnitude below 2^24 and for pi itself (0x40490FDB)
FloatBytes(value) ==
    LET v == value[1]
        a == Abs(v)
        e == Log2(a)
        m == (a - Pow2(e)) * Pow2(23 - e)
        x == e + 127
    IN  IF value = <<1, 1, "PI">> THEN <<219, 15, 73, 64>>
        ELSE IF v = 0 THEN <<0, 0, 0, 0>>
        ELSE << m % 256, (m \div 256) % 256, (m \div 65536) + 128 * (x % 2),
                (x \div 2) + (IF v < 0 THEN 128 ELSE 0) >>

\* struct.pack range check of an integer tag
InTagRange(wv, f) ==
    LET w == TagWidth(f)
        h == Pow2(8 * w - 1)
    IN  IF w = 4
        THEN (IF TagSigned(f) THEN wv[1] \in -32768..32767 ELSE wv[1] \in 0..65535)
        ELSE IF TagSigned(f)
        THEN (wv[1] = 0 /\ wv[2] < h) \/ (wv[1] = -1 /\ wv[2] >= 65536 - h)
        ELSE wv[1] = 0 /\ wv[2] < 2 * h

\* the integer part of the encode direction: struct.pack(s_f[1], data[i]), its s_f[0]
\* bytes appended, then the padding to 4 bytes
_format_data_encode_int(wv, f) ==
    LET raw == WideBytes(wv, TagWidth(f))
    IN  IF ~InTagRange(wv, f) THEN [exc |-> "struct.error", bytes |-> <<>>]
        ELSE [exc |-> "", bytes |-> IF Len(raw) < 4 THEN raw \o Zeros(4 - Len(raw)) ELSE raw]

\* _format_data that pads the empty result of an unknown tag to 4 bytes as well
_format_data_encode_padded(value, f) ==
    IF TagWidth(f) = 0 THEN [exc |-> "", bytes |-> Zeros(4)]
    ELSE IF f = "f" THEN [exc |-> "", bytes |-> FloatBytes(value)]
    ELSE _format_data_encode_int(Wide(IntOf(value)), f)

\* _format_data(data=[value], format=f, type="encode"):
\* [exc, bytes]; an unknown tag returns [] (exc "", bytes <<>>)
_format_data_encode(value, f) ==
    IF TagWidth(f) = 0 THEN [exc |-> "", bytes |-> <<>>]
    ELSE IF f = "f" THEN [exc |-> "", bytes |-> FloatBytes(value)]
    ELSE _format_data_encode_int(Wide(IntOf(value)), f)

\* struct.unpack that reads every integer tag as unsigned
_format_data_decode_unsigned(data, f) ==
    LET w  == TagWidth(f)
        b  == [k \in 1..4 |-> IF k <= w /\ k <= Len(data) THEN data[k] ELSE 0]
    IN  IF w = 0 THEN [exc |-> "", rdata |-> <<>>]
        ELSE IF Len(data) < w THEN [exc |-> "IndexError", rdata |-> <<>>]
        ELSE IF f = "f" THEN [exc |-> "", rdata |-> << <<"f", SubSeq(data, 1, 4)>> >>]
        ELSE [exc |-> "", rdata |-> << <<b[3] + 256 * b[4], b[1] + 256 * b[2]>> >>]

\* _format_data(data=data, format=f, type="decode"): [exc, rdata]. The first s_f[0]
\* bytes of data are unpacked, low byte first; an unknown tag returns []; a float is
\* kept as its 4 bytes
_format_data_decode(data, f) ==
    LET w  == TagWidth(f)
        b  == [k \in 1..4 |-> IF k <= w /\ k <= Len(data) THEN data[k] ELSE 0]
        lo == b[1] + 256 * b[2]
        hi == b[3] + 256 * b[4]
        h  == Pow2(8 * w - 1)
    IN  IF w = 0 THEN [exc |-> "", rdata |-> <<>>]
        ELSE IF Len(data) < w THEN [exc |-> "IndexError", rdata |-> <<>>]
        ELSE IF f = "f" THEN [exc |-> "", rdata |-> << <<"f", SubSeq(data, 1, 4)>> >>]
        ELSE IF ~TagSigned(f) THEN [exc |-> "", rdata |-> << <<hi, lo>> >>]
        ELSE IF w = 4
        THEN [exc |-> "", rdata |-> << <<IF hi >= 32768 THEN hi - 65536 ELSE hi, lo>> >>]
        ELSE [exc |-> "", rdata |-> << IF lo >= h THEN <<-1, lo + 65536 - 2 * h>>
                                                  ELSE <<0, lo>> >>]

\* ------------------------------------------------------------------------
\* Steps of an operation
\* ------------------------------------------------------------------------

\* one _send_can followed by the reply read named rd:
\* "_reply_state", "get_id", "_read_prop" (both through _receive_can) or "none"
Xchg(id_num, cmd_mode, cmd_data, data, rd) ==
    [kind |-> "xchg", id_num |-> id_num, cmd_mode |-> cmd_mode,
     cmd_data |-> cmd_data, data |-> data, rd |-> rd, arg |-> 0]

\* a control step: "raise", "sleep", "set_id_tail", "get_posvel_tail", "get_volcur_tail"
Ctl(kind, id_num, arg, rd) ==
    [kind |-> kind, id_num |-> id_num, cmd_mode |-> 0,
     cmd_data |-> <<0, 0>>, data |-> <<>>, rd |-> rd, arg |-> arg]

Raise(exc) == Ctl("raise", 0, 0, exc)

Sleep(ms) == Ctl("sleep", 0, ms, "")

\* ------------------------------------------------------------------------
\* The operations: the steps each one performs, in order
\* ------------------------------------------------------------------------

motor_enable(id_num) == << Xchg(id_num, 3, <<0, 0>>, Zeros(8), "_reply_state") >>

\* motor_stop without its _reply_state call
motor_stop_noread(id_num) == << Xchg(id_num, 4, <<0, 0>>, Zeros(8), "none") >>

motor_stop(id_num) == << Xchg(id_num, 4, <<0, 0>>, Zeros(8), "_reply_state") >>

clear_error(id_num) ==
    << Xchg(id_num, 4, <<0, 0>>, <<1, 0, 0, 0, 0, 0, 0, 0>>, "_reply_state") >>

\* the persist step that leaves out motor_stop
_write_prop_persist_nostop(id_num, cmd_mode) ==
    << Xchg(id_num, cmd_mode, <<0, 2>>, Zeros(8), "_reply_state") >>

\* the persist step of _write_prop: stop the motor, then commit
_write_prop_persist(id_num, cmd_mode) ==
    motor_stop(id_num) \o << Xchg(id_num, cmd_mode, <<0, 2>>, Zeros(8), "_reply_state") >>

\* _write_prop that never runs the persist step
_write_prop_nopersist(id_num, index, data_type, value) ==
    LET cmd_mode == IF index < 28672 THEN 8 ELSE 18
        enc      == _format_data_encode(value, data_type)
        tx_data  == << BitAnd(index, 255), BitAnd(Shr(index, 8), 255),
                       IF index < 28672 THEN type_index(data_type) ELSE 0, 0 >> \o enc.bytes
    IN  IF index < 28672 /\ type_index(data_type) = -1 THEN << Raise("ValueError") >>
        ELSE IF enc.exc # "" THEN << Raise(enc.exc) >>
        ELSE IF Len(tx_data) < 8 THEN << Raise("IndexError") >>
        ELSE << Xchg(id_num, cmd_mode, <<0, 0>>, tx_data, "_reply_state") >>

_write_prop(id_num, index, data_type, value) ==
    LET cmd_mode == IF index < 28672 THEN 8 ELSE 18
        enc      == _format_data_encode(value, data_type)
        tx_data  == << BitAnd(index, 255), BitAnd(Shr(index, 8), 255),
                       IF index < 28672 THEN type_index(data_type) ELSE 0, 0 >> \o enc.bytes
    IN  IF index < 28672 /\ type_index(data_type) = -1 THEN << Raise("ValueError") >>
        ELSE IF enc.exc # "" THEN << Raise(enc.exc) >>
        ELSE IF Len(tx_data) < 8 THEN << Raise("IndexError") >>
        ELSE << Xchg(id_num, cmd_mode, <<0, 0>>, tx_data, "_reply_state") >>
             \o (IF cmd_mode = 8 THEN _write_prop_persist(id_num, cmd_mode) ELSE <<>>)

\* _read_prop whose boundary test is index <= 0x7000
_read_prop_inclusive(id_num, index, data_type) ==
    LET cmd_mode == IF index <= 28672 THEN 9 ELSE 17
        tx_data  == << BitAnd(index, 255), BitAnd(Shr(index, 8), 255),
                       IF index <= 28672 THEN type_index(data_type) ELSE 0, 0, 0, 0, 0, 0 >>
    IN  IF index <= 28672 /\ type_index(data_type) = -1 THEN << Raise("ValueError") >>
        ELSE << Xchg(id_num, cmd_mode, <<0, 0>>, tx_data, "_read_prop") >>

_read_prop(id_num, index, data_type) ==
    LET cmd_mode == IF index < 28672 THEN 9 ELSE 17
        tx_data  == << BitAnd(index, 255), BitAnd(Shr(index, 8), 255),
                       IF index < 28672 THEN type_index(data_type) ELSE 0, 0, 0, 0, 0, 0 >>
    IN  IF index < 28672 /\ type_index(data_type) = -1 THEN << Raise("ValueError") >>
        ELSE << Xchg(id_num, cmd_mode, <<0, 0>>, tx_data, "_read_prop") >>

\* set_mode that writes the mode at index 0x6005, below the 0x7000 boundary
set_mode_config(id_num, mode) == _write_prop(id_num, 24581, "u8", Num(mode))

set_mode(id_num, mode) == _write_prop(id_num, 28677, "u8", Num(mode))

get_id(id_num) == << Xchg(id_num, 0, <<253, 0>>, Zeros(8), "get_id") >>

\* set_id without the motor_stop it starts with
set_id_nostop(id_num, new_id) ==
    get_id(id_num) \o << Ctl("set_id_tail", id_num, BitAnd(new_id, 255), "") >>

set_id(id_num, new_id) ==
    motor_stop(id_num) \o << Sleep(100) >> \o get_id(id_num)
    \o << Ctl("set_id_tail", id_num, BitAnd(new_id, 255), "") >>

restore_config(id_num) ==
    motor_stop(id_num)
    \o << Xchg(id_num, 8, <<0, 3>>, Zeros(8), "none"), Sleep(3000) >>
    \o set_id(127, id_num)

get_posvel(id_num) ==
    _write_prop(id_num, 28696, "f", Num(27)) \o << Ctl("get_posvel_tail", id_num, 0, "") >>

get_volcur(id_num) ==
    _read_prop(id_num, 12331, "f") \o _read_prop(id_num, 12318, "f")
    \o << Ctl("get_volcur_tail", id_num, 0, "") >>

\* ------------------------------------------------------------------------
\* Quantization and the motion commands
\* ------------------------------------------------------------------------

KP_MIN == <<0, 1>>

KP_MAX == <<500, 1>>

KD_MIN == <<0, 1>>

KD_MAX == <<5, 1>>

\* self.I_MAX
I_MAX == 27

RLess(p, q) ==
    LET g == Gcd(p[2], q[2])
    IN  p[1] * (q[2] \div g) < q[1] * (p[2] \div g)

\* _float_to_uint that leaves x as it is passed
_float_to_uint_noclamp(x, x_min, x_max, bits) ==
    LET span == RSub(x_max, x_min)
        r    == RDiv(RMul(RSub(x, x_min), RInt(Pow2(bits) - 1)), span)
    IN  IF r[1] >= 0 THEN r[1] \div r[2] ELSE -((-r[1]) \div r[2])

\* _float_to_uint: int((x - offset)*((1 << bits) - 1)/span), x clamped to the range
_float_to_uint(x, x_min, x_max, bits) ==
    LET span == RSub(x_max, x_min)
        xc   == IF RLess(x_max, x) THEN x_max ELSE IF RLess(x, x_min) THEN x_min ELSE x
        r    == RDiv(RMul(RSub(xc, x_min), RInt(Pow2(bits) - 1)), span)
    IN  r[1] \div r[2]

\* x*self.DEG_RAD and x*self.R_MIN_RAD_S: a rational multiple of pi
DEG_RAD(x) == Scaled(Rat(x, 180), "PI")

R_MIN_RAD_S(x) == Scaled(Rat(x, 30), "PI")

\* math.pi as a rational: near enough for the quantized value of every angle and speed
\* used here to be the one the code computes
PiRat == <<355, 113>>

\* a value as a number: a multiple of pi is multiplied out
Plain(value) ==
    IF value[3] = "PI" THEN RMul(<<value[1], value[2]>>, PiRat) ELSE <<value[1], value[2]>>

\* tx_data of impedance_control with the low byte of each field first
impedance_control_tx_data_lowfirst(pos, vel, kp, kd) ==
    LET p == _float_to_uint(Plain(DEG_RAD(pos)), P_MIN, P_MAX, 16)
        v == _float_to_uint(Plain(R_MIN_RAD_S(vel)), V_MIN, V_MAX, 16)
        a == _float_to_uint(RInt(kp), KP_MIN, KP_MAX, 16)
        d == _float_to_uint(RInt(kd), KD_MIN, KD_MAX, 16)
    IN  << BitAnd(p, 255), BitAnd(Shr(p, 8), 255), BitAnd(v, 255), BitAnd(Shr(v, 8), 255),
           BitAnd(a, 255), BitAnd(Shr(a, 8), 255), BitAnd(d, 255), BitAnd(Shr(d, 8), 255) >>

\* tx_data of impedance_control: position, velocity, kp and kd, high byte first
impedance_control_tx_data(pos, vel, kp, kd) ==
    LET p == _float_to_uint(Plain(DEG_RAD(pos)), P_MIN, P_MAX, 16)
        v == _float_to_uint(Plain(R_MIN_RAD_S(vel)), V_MIN, V_MAX, 16)
        a == _float_to_uint(RInt(kp), KP_MIN, KP_MAX, 16)
        d == _float_to_uint(RInt(kd), KD_MIN, KD_MAX, 16)
    IN  << BitAnd(Shr(p, 8), 255), BitAnd(p, 255), BitAnd(Shr(v, 8), 255), BitAnd(v, 255),
           BitAnd(Shr(a, 8), 255), BitAnd(a, 255), BitAnd(Shr(d, 8), 255), BitAnd(d, 255) >>

\* impedance_control that leaves the run mode as it is
impedance_control_nomode(id_num, pos, vel, tff, kp, kd) ==
    LET t == _float_to_uint(RInt(tff), T_MIN, T_MAX, 16)
    IN  motor_enable(id_num)
        \o << Xchg(id_num, 1, << BitAnd(t, 255), BitAnd(Shr(t, 8), 255) >>,
                   impedance_control_tx_data(pos, vel, kp, kd), "_reply_state") >>

impedance_control(id_num, pos, vel, tff, kp, kd) ==
    LET t == _float_to_uint(RInt(tff), T_MIN, T_MAX, 16)
    IN  motor_enable(id_num) \o set_mode(id_num, 0)
        \o << Xchg(id_num, 1, << BitAnd(t, 255), BitAnd(Shr(t, 8), 255) >>,
                   impedance_control_tx_data(pos, vel, kp, kd), "_reply_state") >>

\* set_pos that writes the velocity limit before the current limit
set_pos_reordered(id_num, pos, vel, limit_cur) ==
    motor_enable(id_num) \o set_mode(id_num, 1)
    \o _write_prop(id_num, 28695, "f", R_MIN_RAD_S(vel))
    \o _write_prop(id_num, 28696, "f", Num(limit_cur))
    \o _write_prop(id_num, 28694, "f", DEG_RAD(pos))

set_pos(id_num, pos, vel, limit_cur) ==
    motor_enable(id_num) \o set_mode(id_num, 1)
    \o _write_prop(id_num, 28696, "f", Num(limit_cur))
    \o _write_prop(id_num, 28695, "f", R_MIN_RAD_S(vel))
    \o _write_prop(id_num, 28694, "f", DEG_RAD(pos))

set_vel(id_num, vel, limit_cur) ==
    motor_enable(id_num) \o set_mode(id_num, 2)
    \o _write_prop(id_num, 28696, "f", Num(limit_cur))
    \o _write_prop(id_num, 28682, "f", R_MIN_RAD_S(vel))

\* torque/self.TORQUE_CONSTANT with TORQUE_CONSTANT = T_MAX/I_MAX
set_torque(id_num, torque) ==
    LET q == RDiv(RInt(torque), RDiv(T_MAX, RInt(I_MAX)))
    IN  motor_enable(id_num) \o set_mode(id_num, 3)
        \o _write_prop(id_num, 28678, "f", <<q[1], q[2], "1">>)

\* np.zeros((MOTOR_NUM, 6)): one row
ZeroRow ==
    [pos |-> <<0, 1, "1">>, vel |-> <<0, 1, "1">>, torque |-> <<0, 1, "1">>,
     temp |-> <<0, 1, "1">>, fault |-> 0, mode |-> 0]

\* self.motor_state is kept as the rows that differ from the np.zeros row:
\* row k of the array, and the array with row k assigned
Row(ms, k) == IF k \in DOMAIN ms THEN ms[k] ELSE ZeroRow

SetRow(ms, k, row) ==
    [j \in (IF row = ZeroRow THEN DOMAIN ms \ {k} ELSE DOMAIN ms \cup {k}) |->
        IF j = k THEN row ELSE ms[j]]

\* motor_state[id_num - 1] of a 127-row array: the row number 1..127 that Python
\* indexes, row 127 for id_num = 0 (index -1), 0 for an IndexError
Slot(id_num) ==
    IF id_num \in 1..MOTOR_NUM THEN id_num
    ELSE IF id_num = 0 THEN MOTOR_NUM
    ELSE 0

\* set_zero that enables the motor whatever mode was cached
set_zero_always(ms, id_num) ==
    IF Slot(id_num) = 0 THEN << Raise("IndexError") >>
    ELSE motor_stop(id_num)
         \o << Xchg(id_num, 6, <<0, 0>>, <<1, 0, 0, 0, 0, 0, 0, 0>>, "_reply_state") >>
         \o motor_enable(id_num)

set_zero(ms, id_num) ==
    IF Slot(id_num) = 0 THEN << Raise("IndexError") >>
    ELSE motor_stop(id_num)
         \o << Xchg(id_num, 6, <<0, 0>>, <<1, 0, 0, 0, 0, 0, 0, 0>>, "_reply_state") >>
         \o (IF Row(ms, Slot(id_num)).mode = 2 THEN motor_enable(id_num) ELSE <<>>)

\* ------------------------------------------------------------------------
\* The receive path
\* ------------------------------------------------------------------------

\* _read_port(num): the drained bytes are accepted only when exactly num arrived
_read_port(byte_list, num) ==
    IF Len(byte_list) = num
    THEN [flag |-> 1, udata |-> byte_list]
    ELSE [flag |-> -1, udata |-> <<>>]

\* _receive_can: [exc, flag, none, cdata]; none = TRUE when it returns None.
\* A rejected envelope makes cdata [] and cdata[1] an IndexError; an opcode-21
\* frame calls _dump_error with one argument too many, a TypeError.
_receive_can(model, byte_list) ==
    LET rp    == _read_port(byte_list, ReadNum)
        cdata == _uart_to_can(model, rp.udata)
    IN  IF rp.flag # 1 THEN [exc |-> "", flag |-> rp.flag, none |-> TRUE, cdata |-> <<>>]
        ELSE IF cdata = <<>> THEN [exc |-> "IndexError", flag |-> -1, none |-> TRUE, cdata |-> <<>>]
        ELSE IF cdata[2] = 21 THEN [exc |-> "TypeError", flag |-> 1, none |-> TRUE, cdata |-> cdata]
        ELSE [exc |-> "", flag |-> 1, none |-> FALSE, cdata |-> cdata]

\* a _reply_state that takes every bit of the status byte for a fault bit
StateRow_allbits(rdata) ==
    LET st == rdata[3]
        p  == _uint_to_float(Shl(rdata[6], 8) + rdata[7], P_MIN, P_MAX, 16)
        v  == _uint_to_float(Shl(rdata[8], 8) + rdata[9], V_MIN, V_MAX, 16)
        t  == _uint_to_float(Shl(rdata[10], 8) + rdata[11], T_MIN, T_MAX, 16)
        c  == Rat(Shl(rdata[12], 8) + rdata[13], 10)
    IN  [pos |-> Scaled(p, "RAD_DEG"), vel |-> Scaled(v, "RAD_S_R_MIN"),
         torque |-> Scaled(t, "1"), temp |-> Scaled(c, "1"),
         fault |-> IF BitAnd(st, 255) # 0 THEN 1 ELSE 0,
         mode |-> BitAnd(Shr(st, 6), 3)]

\* the row _reply_state stores for a motion-status frame rdata
StateRow(rdata) ==
    LET st == rdata[3]
        p  == _uint_to_float(Shl(rdata[6], 8) + rdata[7], P_MIN, P_MAX, 16)
        v  == _uint_to_float(Shl(rdata[8], 8) + rdata[9], V_MIN, V_MAX, 16)
        t  == _uint_to_float(Shl(rdata[10], 8) + rdata[11], T_MIN, T_MAX, 16)
        c  == Rat(Shl(rdata[12], 8) + rdata[13], 10)
    IN  [pos |-> Scaled(p, "RAD_DEG"), vel |-> Scaled(v, "RAD_S_R_MIN"),
         torque |-> Scaled(t, "1"), temp |-> Scaled(c, "1"),
         fault |-> IF BitAnd(st, 63) # 0 THEN 1 ELSE 0,
         mode |-> BitAnd(Shr(st, 6), 3)]

\* the test that lets _reply_state decode a frame
IsStatus(r) == r.exc = "" /\ r.flag = 1 /\ r.cdata[2] = 2

\* _reply_state that marks the read failed when the opcode is not 2
_reply_state_strict(model, byte_list, ms) ==
    LET r == _receive_can(model, byte_list)
    IN  [flag |-> IF IsStatus(r) THEN r.flag ELSE -1,
         ms   |-> IF IsStatus(r) /\ Slot(r.cdata[4]) # 0
                  THEN SetRow(ms, Slot(r.cdata[4]), StateRow(r.cdata))
                  ELSE ms]

\* _reply_state: [flag, ms]; every exception is caught and printed
_reply_state(model, byte_list, ms) ==
    LET r == _receive_can(model, byte_list)
    IN  [flag |-> r.flag,
         ms   |-> IF IsStatus(r) /\ Slot(r.cdata[4]) # 0
                  THEN SetRow(ms, Slot(r.cdata[4]), StateRow(r.cdata))
                  ELSE ms]

\* what the bare name READ_FLAG denotes inside get_id, _read_prop and get_volcur:
\* the module global, which no statement ever binds (self.READ_FLAG is another variable)
LookupREAD_FLAG(self_READ_FLAG) == [bound |-> FALSE, v |-> 0]

\* a returned value
Val(k, v) == [k |-> k, v |-> v]

None == Val("None", <<>>)

\* get_id after _send_can: [exc, flag, mcu, ret]
get_id_reply(model, byte_list, id_num, mcu) ==
    LET r == _receive_can(model, byte_list)
        g == LookupREAD_FLAG(r.flag)
    IN  IF r.exc # "" THEN [exc |-> r.exc, flag |-> r.flag, mcu |-> mcu, ret |-> None]
        ELSE IF ~g.bound THEN [exc |-> "NameError", flag |-> r.flag, mcu |-> mcu, ret |-> None]
        ELSE IF g.v # 1 THEN [exc |-> "", flag |-> r.flag, mcu |-> mcu, ret |-> None]
        ELSE IF r.none THEN [exc |-> "TypeError", flag |-> r.flag, mcu |-> mcu, ret |-> None]
        ELSE IF r.cdata[2] = 0
        THEN [exc |-> "", flag |-> r.flag,
              mcu |-> [bound |-> TRUE, v |-> Tail0(r.cdata, 5)], ret |-> Val("int", <<id_num>>)]
        ELSE [exc |-> "", flag |-> r.flag, mcu |-> mcu, ret |-> None]

\* _read_prop after _send_can: [exc, flag, ret]; the value is the 4 bytes data[9:]
_read_prop_reply(model, byte_list) ==
    LET r == _receive_can(model, byte_list)
        g == LookupREAD_FLAG(r.flag)
    IN  IF r.exc # "" THEN [exc |-> r.exc, flag |-> r.flag, ret |-> None]
        ELSE IF ~g.bound THEN [exc |-> "NameError", flag |-> r.flag, ret |-> None]
        ELSE IF g.v # 1 THEN [exc |-> "", flag |-> r.flag, ret |-> None]
        ELSE IF r.none THEN [exc |-> "TypeError", flag |-> r.flag, ret |-> None]
        ELSE IF r.cdata[2] \in {17, 9}
        THEN [exc |-> "", flag |-> r.flag, ret |-> Val("bytes", Tail0(r.cdata, 9))]
        ELSE [exc |-> "", flag |-> r.flag, ret |-> None]

\* ------------------------------------------------------------------------
\* The device side: the envelopes that may come back on the serial line
\* ------------------------------------------------------------------------

\* payload of a motion-status reply and of an identity reply
StatusPayload == <<128, 0, 128, 0, 128, 0, 1, 44>>

McuPayload == <<17, 34, 51, 68, 85, 102, 119, 136>>

\* a device frame in the envelope of a variant: opcode, the two sender_tag bytes
\* (hi = status, lo = the device's own id), the host id in the low byte
Enc(m, opcode, hi, lo, host, payload) ==
    LET c == _send_can_cdata(m, host, opcode, <<lo, hi>>, payload)
    IN  _can_to_uart(m, [k \in 1..13 |-> c[k] % 256])

\* position of the DLC marker in an envelope of a variant (1-based)
DlcAt(m) == IF m = "DR" THEN 4 ELSE 7

Other(m) == IF m = "DR" THEN "CAN" ELSE "DR"

\* the well-formed motion-status reply of device e
Status(m, e, st) == Enc(m, 2, st, e, 0, StatusPayload)

\* a reply with a corrupted DLC marker, and one in the other variant's envelope
BadDlc(m) == [Status(m, 1, 128) EXCEPT ![DlcAt(m)] = 0]

Foreign(m) == Status(Other(m), 1, 128)

\* the replies of the operation scenarios
OpReplies(m) ==
    { Status(m, 1, 128), Enc(m, 0, 0, 1, 254, McuPayload), Enc(m, 21, 0, 1, 0, Zeros(8)) }

\* the well-formed reply to a property-read frame f: the opcode and the index of f,
\* the value (here the float 24.0) in payload bytes 4..7
ReadReplies(m, f) ==
    IF f.cmd_mode \in {9, 17}
    THEN { Enc(m, f.cmd_mode, 0, f.id_num, 0, <<f.data[1], f.data[2], 0, 0, 0, 0, 192, 65>>) }
    ELSE {}

\* the replies of the line scenarios
ReplyEnvs(m) ==
    { Status(m, e, st) : st \in ReplyStatus, e \in ReplyIds }
    \cup { Enc(m, 0, 0, 1, 254, McuPayload), BadDlc(m), Foreign(m) }

\* the device answers with one of the envelopes R, or not at all
DeviceChoices(R, room) ==
    {<<>>} \cup (IF room >= 1 THEN { <<[b |-> e, old |-> FALSE]>> : e \in R } ELSE {})

\* ------------------------------------------------------------------------
\* State
\* ------------------------------------------------------------------------

VARIABLES
    model,        \* self.model, "DR" or "CAN"
    READ_FLAG,    \* self.READ_FLAG
    motor_state,  \* self.motor_state: the rows, of 1..MOTOR_NUM, that are not all zero
    MCU_ID,       \* the module global MCU_ID: [bound, v]
    pc,           \* where the host is: idle, step, write, reopen, rewrite, poll, drain, done
    op,           \* the public operation in progress: [name, id_num, index, catch] and
                  \* mode_status, the local of set_zero read before the stop
    plan,         \* the steps of op still to do
    cur,          \* the exchange in progress
    i,            \* the poll counter of _read_port
    byte_list,    \* byte_list of _read_port
    rxold,        \* whether byte_list holds bytes of a reply to an earlier exchange
    acc,          \* the last read: "none", "rejected", "fresh" or "stale" (accepted)
    first,        \* the first read of op: its outcome a and the opcode o it decoded
    inbuf,        \* the serial input buffer: [b, old], the bytes waiting
    wire,         \* the replies the device has sent and the host has not fully received
    port,         \* the counters of the current _write_port call
    log,          \* the transport events of op: [e, f] with e in send, read, sleep
    result        \* what the last operation returned or raised

vars == << model, READ_FLAG, motor_state, MCU_ID, pc, op, plan, cur, i, byte_list,
           rxold, acc, first, inbuf, wire, port, log, result >>

NoStep == Xchg(0, 0, <<0, 0>>, <<>>, "none")

\* an entry of log: a frame handed to the transport, a finished reply read, or a sleep
Event(e, f) == [e |-> e, f |-> f]

NoRead == [a |-> "", o |-> -1]

NoBytes == [b |-> <<>>, old |-> FALSE]

NoOp == [name |-> "", id_num |-> 0, index |-> 0, data_type |-> "", args |-> <<>>,
         catch |-> FALSE, mode_status |-> 0]

Port0 == [writes |-> 0, closes |-> 0, opens |-> 0, first |-> FALSE, openfail |-> FALSE,
          retryfail |-> FALSE]

Init ==
    /\ model \in {"DR", "CAN"}
    /\ READ_FLAG = 0
    /\ motor_state = [k \in {} |-> ZeroRow]
    /\ MCU_ID = [bound |-> FALSE, v |-> <<>>]
    /\ pc = "idle"
    /\ op = NoOp
    /\ plan = <<>>
    /\ cur = NoStep
    /\ i = 0
    /\ byte_list = <<>>
    /\ rxold = FALSE
    /\ acc = "none"
    /\ first = NoRead
    /\ inbuf = NoBytes
    /\ wire = <<>>
    /\ port = Port0
    /\ log = <<>>
    /\ result = Val("", <<>>)

\* ------------------------------------------------------------------------
\* Calling an operation
\* ------------------------------------------------------------------------

Op(name, id_num, index, catch, steps) ==
    [name |-> name, id_num |-> id_num, index |-> index, data_type |-> "", args |-> <<>>,
     catch |-> catch, steps |-> steps]

\* a call of _write_prop or _read_prop: its index and data_type arguments are kept
PropOp(name, id_num, index, data_type, steps) ==
    [name |-> name, id_num |-> id_num, index |-> index, data_type |-> data_type,
     args |-> <<>>, catch |-> FALSE, steps |-> steps]

\* the calls a client may make; ms is motor_state at the time of the call
Calls(ms) ==
    UNION { { Op("motor_enable", id, 0, FALSE, motor_enable(id)),
              Op("motor_stop", id, 0, FALSE, motor_stop(id)),
              Op("clear_error", id, 0, FALSE, clear_error(id)),
              Op("set_mode", id, 28677, FALSE, set_mode(id, 1)),
              Op("impedance_control", id, 0, TRUE, impedance_control(id, 0, 0, 0, 0, 0)),
              Op("set_pos", id, 0, FALSE, set_pos(id, 0, 0, 27)),
              Op("set_vel", id, 0, FALSE, set_vel(id, 0, 27)),
              Op("set_torque", id, 0, FALSE, set_torque(id, 4)),
              Op("set_zero", id, 0, FALSE, set_zero(ms, id)),
              Op("set_id", id, 0, FALSE, set_id(id, 2)),
              Op("restore_config", id, 0, FALSE, restore_config(id)),
              Op("get_id", id, 0, FALSE, get_id(id)),
              Op("get_posvel", id, 0, TRUE, get_posvel(id)),
              Op("get_volcur", id, 0, TRUE, get_volcur(id)) } : id \in CallIds }
    \cup UNION { { Op("motor_enable", id, 0, FALSE, motor_enable(id)),
                   Op("set_zero", id, 0, FALSE, set_zero(ms, id)),
                   Op("get_posvel", id, 0, TRUE, get_posvel(id)),
                   PropOp("_write_prop", id, 8197, "u16",
                          _write_prop(id, 8197, "u16", Num(27))) } :
                 id \in FarIds }
    \cup { PropOp("_write_prop", id, x, IF x < 28672 THEN "u16" ELSE "f",
                  _write_prop(id, x, IF x < 28672 THEN "u16" ELSE "f", Num(27))) :
           id \in CallIds, x \in PropIndexes }
    \cup { PropOp("_read_prop", id, x, IF x < 28672 THEN "u16" ELSE "f",
                  _read_prop(id, x, IF x < 28672 THEN "u16" ELSE "f")) :
           id \in CallIds, x \in PropIndexes }

\* the calls of the property scenarios: every index with every tag, and a write for a
\* device id beyond MOTOR_NUM
PropCalls ==
    { PropOp("_write_prop", id, x, t, _write_prop(id, x, t, Num(27))) :
        id \in CallIds, x \in PropIndexes, t \in PropTags }
    \cup { PropOp("_read_prop", id, x, t, _read_prop(id, x, t)) :
             id \in CallIds, x \in PropIndexes, t \in PropTags }
    \cup { PropOp("_write_prop", id, 8197, "u16", _write_prop(id, 8197, "u16", Num(27))) :
             id \in FarIds }

\* the calls of the impedance scenarios: args = <<pos, vel, tff, kp, kd>> is kept
ImpCalls ==
    { [name |-> "impedance_control", id_num |-> id, index |-> 0, data_type |-> "",
       args |-> a, catch |-> TRUE,
       steps |-> impedance_control(id, a[1], a[2], a[3], a[4], a[5])] :
        id \in CallIds, a \in ImpArgs }

\* the calls of the line scenarios
LineCalls ==
    { Op("motor_enable", LineId, 0, FALSE, motor_enable(LineId)),
      Op("motor_stop", LineId, 0, FALSE, motor_stop(LineId)) }

CallFrom(S) ==
    /\ pc = "idle"
    /\ \E c \in S :
          /\ op' = [name |-> c.name, id_num |-> c.id_num, index |-> c.index,
                    data_type |-> c.data_type, args |-> c.args, catch |-> c.catch,
                    mode_status |-> IF c.name = "set_zero" /\ Slot(c.id_num) # 0
                                    THEN Row(motor_state, Slot(c.id_num)).mode ELSE 0]
          /\ plan' = c.steps
    /\ pc' = "step"
    /\ UNCHANGED << model, READ_FLAG, motor_state, MCU_ID, cur, i, byte_list, rxold, acc, first,
                    inbuf, wire, port, log, result >>

Call == CallFrom(Calls(motor_state))

CallLine == CallFrom(LineCalls)

CallProp == CallFrom(PropCalls)

CallImp == CallFrom(ImpCalls)

\* the calls that write run-time parameters (index 0x7000 and above)
RamCalls ==
    UNION { { PropOp("_write_prop", id, 28672, t, _write_prop(id, 28672, t, Num(27))) :
                t \in PropTags }
            \cup { Op("set_mode", id, 28677, FALSE, set_mode(id, 1)),
                   Op("set_pos", id, 0, FALSE, set_pos(id, 0, 0, 27)),
                   Op("set_vel", id, 0, FALSE, set_vel(id, 0, 27)),
                   Op("set_torque", id, 0, FALSE, set_torque(id, 4)) } :
            id \in CallIds \cup FarIds }

CallRam == CallFrom(RamCalls)

\* an exception leaves the operation: caught by the try of impedance_control (which
\* then returns None), get_posvel and get_volcur (which return False), raised otherwise
Thrown(exc) ==
    IF ~op.catch THEN Val("raise", <<exc>>)
    ELSE IF op.name = "impedance_control" THEN None
    ELSE Val("False", <<>>)

Throw(exc) ==
    /\ result' = Thrown(exc)
    /\ pc' = "done"
    /\ plan' = <<>>

\* the operation returns: the value of its last return statement
Finish ==
    /\ pc = "step"
    /\ plan = <<>>
    /\ pc' = "done"
    /\ result' = IF result.k = "" THEN None ELSE result
    /\ UNCHANGED << model, READ_FLAG, motor_state, MCU_ID, op, plan, cur, i, byte_list,
                    rxold, acc, first, inbuf, wire, port, log >>

\* control is back at the caller: the locals of the operation are gone
Return ==
    /\ pc = "done"
    /\ pc' = "idle"
    /\ op' = NoOp
    /\ cur' = NoStep
    /\ i' = 0
    /\ byte_list' = <<>>
    /\ rxold' = FALSE
    /\ acc' = "none"
    /\ first' = NoRead
    /\ port' = Port0
    /\ log' = <<>>
    /\ result' = Val("", <<>>)
    /\ UNCHANGED << model, READ_FLAG, motor_state, MCU_ID, plan, inbuf, wire >>

\* what a control step does: the exception it raises, or the plan, result and log it leaves
Eff(exc, pl, res, lg) == [exc |-> exc, plan |-> pl, result |-> res, log |-> lg]

\* a raise before any frame is built
DoRaise == Eff(Head(plan).rd, plan, result, log)

\* time.sleep
DoSleep == Eff("", Tail(plan), result, Append(log, Event("sleep", Head(plan))))

\* set_id after get_id has returned: len(MCU_ID) is a NameError while MCU_ID is unbound
SetIdTail ==
    IF ~MCU_ID.bound THEN Eff("NameError", plan, result, log)
    ELSE IF Len(MCU_ID.v) = 8
    THEN Eff("", << Xchg(Head(plan).id_num, 7, <<0, Head(plan).arg>>, MCU_ID.v, "_reply_state"),
                    Ctl("return", 0, 0, "True") >> \o Tail(plan), result, log)
    ELSE Eff("", Tail(plan), IF op.name = "set_id" THEN Val("False", <<>>) ELSE result, log)

\* return True of set_id; restore_config ignores the value
DoReturn ==
    Eff("", Tail(plan), IF op.name = "set_id" THEN Val(Head(plan).rd, <<>>) ELSE result, log)

\* get_posvel after _write_prop: the cached row when self.READ_FLAG == 1 and id_num != 0
GetPosvelTail ==
    LET id == Head(plan).id_num
    IN  IF READ_FLAG = 1 /\ id # 0
        THEN IF Slot(id) = 0
             THEN Eff("IndexError", plan, result, log)
             ELSE Eff("", Tail(plan), Val("pos_vel", << Row(motor_state, Slot(id)).pos,
                                                        Row(motor_state, Slot(id)).vel >>), log)
        ELSE Eff("", Tail(plan), None, log)

\* get_volcur after the two _read_prop calls: READ_FLAG is the unbound global again
GetVolcurTail ==
    LET g == LookupREAD_FLAG(READ_FLAG)
    IN  IF ~g.bound THEN Eff("NameError", plan, result, log)
        ELSE Eff("", Tail(plan), IF g.v = 1 THEN Val("vol_cur", result.v) ELSE None, log)

\* the statements of an operation between two exchanges
Control ==
    /\ pc = "step"
    /\ plan # <<>>
    /\ Head(plan).kind # "xchg"
    /\ LET k == Head(plan).kind
           e == CASE k = "raise" -> DoRaise
                  [] k = "sleep" -> DoSleep
                  [] k = "set_id_tail" -> SetIdTail
                  [] k = "return" -> DoReturn
                  [] k = "get_posvel_tail" -> GetPosvelTail
                  [] k = "get_volcur_tail" -> GetVolcurTail
       IN  IF e.exc # ""
           THEN /\ Throw(e.exc)
                /\ UNCHANGED log
           ELSE /\ pc' = pc
                /\ plan' = e.plan
                /\ result' = e.result
                /\ log' = e.log
    /\ UNCHANGED << model, READ_FLAG, motor_state, MCU_ID, op, cur, i, byte_list,
                    rxold, acc, first, inbuf, wire, port >>

\* ------------------------------------------------------------------------
\* _send_can / _write_port
\* ------------------------------------------------------------------------

\* the envelope of the exchange in progress
Envelope == _send_can(model, cur.id_num, cur.cmd_mode, cur.cmd_data, cur.data)

\* whether a reply read follows the frame: _reply_state reads only for id_num <= MOTOR_NUM
Reads(step) == step.rd # "none" /\ (step.rd = "_reply_state" => step.id_num <= MOTOR_NUM)

MarkOld(chunks) == [k \in 1..Len(chunks) |-> [chunks[k] EXCEPT !.old = TRUE]]

MarkOldBuf(buf) == IF buf.b = <<>> THEN buf ELSE [buf EXCEPT !.old = TRUE]

\* _send_can builds the frame, _write_port empties the input buffer
StartWrite ==
    /\ pc = "step"
    /\ plan # <<>>
    /\ Head(plan).kind = "xchg"
    /\ cur' = Head(plan)
    /\ plan' = Tail(plan)
    /\ inbuf' = NoBytes
    /\ port' = Port0
    /\ pc' = "write"
    /\ UNCHANGED << model, READ_FLAG, motor_state, MCU_ID, op, i, byte_list, rxold, acc, first,
                    wire, log, result >>

\* uart.write succeeds (first try or retry); the device may answer, whole or in two bursts.
\* What follows is the reply read of the step: _read_port starts with READ_FLAG = -1.
Answer(R) ==
    /\ pc \in {"write", "rewrite"}
    /\ Writable(Envelope)
    /\ port' = [port EXCEPT !.writes = @ + 1]
    /\ log' = Append(log, Event("send", cur))
    /\ \E r \in DeviceChoices(R, MaxWire - Len(wire)) : wire' = MarkOld(wire) \o r
    /\ inbuf' = MarkOldBuf(inbuf)
    /\ IF Reads(cur)
       THEN /\ pc' = "poll"
            /\ READ_FLAG' = -1
            /\ byte_list' = <<>>
            /\ rxold' = FALSE
            /\ i' = PollBudget
       ELSE /\ pc' = "step"
            /\ UNCHANGED << READ_FLAG, byte_list, rxold, i >>
    /\ UNCHANGED << model, motor_state, MCU_ID, op, plan, cur, acc, first, result >>

WriteOk == Answer(OpReplies(model) \cup ReadReplies(model, cur))

WriteOkLine == Answer(ReplyEnvs(model))

\* the first uart.write raises: always possible, certain for a byte outside 0..255
WriteFail ==
    /\ pc = "write"
    /\ port' = [port EXCEPT !.writes = @ + 1, !.first = TRUE]
    /\ pc' = "reopen"
    /\ UNCHANGED << model, READ_FLAG, motor_state, MCU_ID, op, plan, cur, i, byte_list,
                    rxold, acc, first, inbuf, wire, log, result >>

\* uart.close(); uart.open(): a reopened port starts with an empty input buffer
ReopenOk ==
    /\ pc = "reopen"
    /\ port' = [port EXCEPT !.closes = @ + 1, !.opens = @ + 1]
    /\ inbuf' = NoBytes
    /\ pc' = "rewrite"
    /\ UNCHANGED << model, READ_FLAG, motor_state, MCU_ID, op, plan, cur, i, byte_list,
                    rxold, acc, first, wire, log, result >>

\* uart.open() raises: the exception leaves _write_port
ReopenFail ==
    /\ pc = "reopen"
    /\ port' = [port EXCEPT !.closes = @ + 1, !.opens = @ + 1, !.openfail = TRUE]
    /\ inbuf' = NoBytes
    /\ Throw("SerialException")
    /\ UNCHANGED << model, READ_FLAG, motor_state, MCU_ID, op, cur, i, byte_list,
                    rxold, acc, first, wire, log >>

\* a _write_port that reopens and retries again when the retry raises
RetryFailAgain ==
    /\ pc = "rewrite"
    /\ port' = [port EXCEPT !.writes = @ + 1, !.retryfail = TRUE]
    /\ pc' = "reopen"
    /\ UNCHANGED << model, READ_FLAG, motor_state, MCU_ID, op, plan, cur, i, byte_list,
                    rxold, acc, first, inbuf, wire, log, result >>

\* the retried uart.write raises: the exception leaves _write_port
RetryFail ==
    /\ pc = "rewrite"
    /\ port' = [port EXCEPT !.writes = @ + 1, !.retryfail = TRUE]
    /\ Throw(IF Writable(Envelope) THEN "SerialException" ELSE "ValueError")
    /\ UNCHANGED << model, READ_FLAG, motor_state, MCU_ID, op, cur, i, byte_list,
                    rxold, acc, first, inbuf, wire, log >>

\* ------------------------------------------------------------------------
\* _read_port and the decoding that follows it
\* ------------------------------------------------------------------------

\* while inWaiting() == 0 and i > 0: the budget runs out with no byte seen
PollTimeout ==
    /\ pc = "poll"
    /\ inbuf.b = <<>>
    /\ i' = 0
    /\ pc' = "drain"
    /\ UNCHANGED << model, READ_FLAG, motor_state, MCU_ID, op, plan, cur, byte_list,
                    rxold, acc, first, inbuf, wire, port, log, result >>

\* a poll sees bytes waiting: the first loop ends and the second reads them
PollSeen ==
    /\ pc = "poll"
    /\ inbuf.b # <<>>
    /\ pc' = "drain"
    /\ byte_list' = byte_list \o inbuf.b
    /\ rxold' = (rxold \/ inbuf.old)
    /\ inbuf' = NoBytes
    /\ UNCHANGED << model, READ_FLAG, motor_state, MCU_ID, op, plan, cur, i, acc, first,
                    wire, port, log, result >>

\* while inWaiting() > 0: read what is waiting
DrainRead ==
    /\ pc = "drain"
    /\ inbuf.b # <<>>
    /\ byte_list' = byte_list \o inbuf.b
    /\ rxold' = (rxold \/ inbuf.old)
    /\ inbuf' = NoBytes
    /\ UNCHANGED << model, READ_FLAG, motor_state, MCU_ID, pc, op, plan, cur, i, acc, first,
                    wire, port, log, result >>

\* whether the read ends in a frame the caller uses
Accepted(rd, r) ==
    IF rd = "_reply_state" THEN IsStatus(r) ELSE r.exc = "" /\ r.flag = 1

\* the outcome of the read in progress: "fresh" or "stale" when its frame is accepted
Outcome ==
    IF Accepted(cur.rd, _receive_can(model, byte_list))
    THEN (IF rxold THEN "stale" ELSE "fresh")
    ELSE "rejected"

\* the opcode of the frame the read in progress decodes, -1 when it decodes none
OpcodeRead ==
    LET c == _uart_to_can(model, _read_port(byte_list, ReadNum).udata)
    IN  IF c = <<>> THEN -1 ELSE c[2]

\* inWaiting() == 0 ends _read_port; the caller of the read goes on with what was read
Decode ==
    /\ pc = "drain"
    /\ inbuf.b = <<>>
    /\ acc' = Outcome
    /\ log' = Append(log, Event("read", cur))
    /\ first' = IF first.a = "" THEN [a |-> Outcome, o |-> OpcodeRead] ELSE first
    /\ IF cur.rd = "_reply_state"
       THEN LET r == _reply_state(model, byte_list, motor_state)
            IN  /\ READ_FLAG' = r.flag
                /\ motor_state' = r.ms
                /\ pc' = "step"
                /\ UNCHANGED << MCU_ID, plan, result >>
       ELSE IF cur.rd = "get_id"
       THEN LET r == get_id_reply(model, byte_list, cur.id_num, MCU_ID)
            IN  /\ READ_FLAG' = r.flag
                /\ MCU_ID' = r.mcu
                /\ UNCHANGED motor_state
                /\ IF r.exc # ""
                   THEN Throw(r.exc)
                   ELSE /\ pc' = "step"
                        /\ result' = IF op.name = "get_id" THEN r.ret ELSE result
                        /\ UNCHANGED plan
       ELSE LET r == _read_prop_reply(model, byte_list)
            IN  /\ READ_FLAG' = r.flag
                /\ UNCHANGED << motor_state, MCU_ID >>
                /\ IF r.exc # ""
                   THEN Throw(r.exc)
                   ELSE /\ pc' = "step"
                        /\ result' = IF op.name = "_read_prop" THEN r.ret
                                     ELSE Val(result.k, result.v \o <<r.ret.v>>)
                        /\ UNCHANGED plan
    /\ UNCHANGED << model, op, cur, i, byte_list, rxold, inbuf, wire, port >>

\* the serial line delivers the next burst into the input buffer: the whole of the
\* oldest reply in flight, or its first SplitAt bytes
Deliver ==
    /\ wire # <<>>
    /\ \E n \in {SplitAt, Len(Head(wire).b)} :
          /\ n <= Len(Head(wire).b)
          /\ inbuf' = [b |-> inbuf.b \o SubSeq(Head(wire).b, 1, n),
                       old |-> inbuf.old \/ Head(wire).old]
          /\ wire' = IF n = Len(Head(wire).b) THEN Tail(wire)
                     ELSE << [Head(wire) EXCEPT !.b = Tail0(@, n)] >> \o Tail(wire)
    /\ UNCHANGED << model, READ_FLAG, motor_state, MCU_ID, pc, op, plan, cur, i, byte_list,
                    rxold, acc, first, port, log, result >>

\* the operations of the class, called in any order
Next ==
    \/ Call
    \/ Finish
    \/ Return
    \/ Control
    \/ StartWrite
    \/ WriteOk
    \/ WriteFail
    \/ ReopenOk
    \/ ReopenFail
    \/ RetryFail
    \/ PollTimeout
    \/ PollSeen
    \/ DrainRead
    \/ Decode
    \/ Deliver

Spec == Init /\ [][Next]_vars

\* one device on the line, every reply the line may carry
NextLine ==
    \/ CallLine
    \/ Finish
    \/ Return
    \/ StartWrite
    \/ WriteOkLine
    \/ WriteFail
    \/ ReopenOk
    \/ ReopenFail
    \/ RetryFail
    \/ PollTimeout
    \/ PollSeen
    \/ DrainRead
    \/ Decode
    \/ Deliver

SpecLine == Init /\ [][NextLine]_vars

\* impedance_control called with any of its arguments
NextImp ==
    \/ CallImp
    \/ Finish
    \/ Return
    \/ StartWrite
    \/ WriteOk
    \/ PollTimeout
    \/ PollSeen
    \/ DrainRead
    \/ Decode
    \/ Deliver

SpecImp == Init /\ [][NextImp]_vars

\* _write_prop and _read_prop called in any order
NextProp ==
    \/ CallProp
    \/ Finish
    \/ Return
    \/ Control
    \/ StartWrite
    \/ WriteOk
    \/ WriteFail
    \/ ReopenOk
    \/ ReopenFail
    \/ RetryFail
    \/ PollTimeout
    \/ PollSeen
    \/ DrainRead
    \/ Decode
    \/ Deliver

SpecProp == Init /\ [][NextProp]_vars

\* _write_prop at an index from 0x7000 on, and the operations built on it
NextRam ==
    \/ CallRam
    \/ Finish
    \/ Return
    \/ Control
    \/ StartWrite
    \/ WriteOk
    \/ WriteFail
    \/ ReopenOk
    \/ ReopenFail
    \/ RetryFail
    \/ PollTimeout
    \/ PollSeen
    \/ DrainRead
    \/ Decode
    \/ Deliver

SpecRam == Init /\ [][NextRam]_vars

\* ------------------------------------------------------------------------
\* The polling of _read_port on its own, pass by pass, on a line where the device
\* never answers
\* ------------------------------------------------------------------------

\* uart.write succeeds and no byte comes back
WriteOkSilent == Answer({})

\* a pass of the first loop that never counts down
PollIdle_forever ==
    /\ pc = "poll"
    /\ inbuf.b = <<>>
    /\ i > 0
    /\ i' = i
    /\ UNCHANGED << model, READ_FLAG, motor_state, MCU_ID, pc, op, plan, cur, byte_list,
                    rxold, acc, first, inbuf, wire, port, log, result >>

\* one pass of while inWaiting() == 0 and i > 0: i -= 1
PollIdle ==
    /\ pc = "poll"
    /\ inbuf.b = <<>>
    /\ i > 0
    /\ i' = i - 1
    /\ UNCHANGED << model, READ_FLAG, motor_state, MCU_ID, pc, op, plan, cur, byte_list,
                    rxold, acc, first, inbuf, wire, port, log, result >>

\* the first loop ends with i = 0
PollEnd == i = 0 /\ PollTimeout

\* the steps the program takes by itself once an operation is called
Running ==
    \/ StartWrite
    \/ WriteOkSilent
    \/ PollIdle
    \/ PollEnd
    \/ Decode
    \/ Finish
    \/ Return

NextPoll ==
    \/ CallLine
    \/ StartWrite
    \/ WriteOkSilent
    \/ PollIdle
    \/ PollEnd
    \/ Decode
    \/ Finish
    \/ Return

\* the interpreter keeps executing the operation; nothing obliges the client to call
SpecPoll == Init /\ [][NextPoll]_vars /\ WF_vars(Running)

\* ------------------------------------------------------------------------
\* The quantizer on its own: _float_to_uint, then _uint_to_float of its result
\* ------------------------------------------------------------------------

\* the physical ranges the class quantizes over: <<x_min, x_max>>
Ranges ==
    { <<P_MIN, P_MAX>>, <<V_MIN, V_MAX>>, <<T_MIN, T_MAX>>, <<KP_MIN, KP_MAX>>,
      <<KD_MIN, KD_MAX>> }

\* one step of a range: (x_max - x_min)/(2^bits - 1)
QuantStep(R) == RDiv(RSub(R[2], R[1]), RInt(Pow2(QuantBits) - 1))

QuantInputs(R) ==
    { RAdd(R[1], RDiv(RMul(RSub(R[2], R[1]), RInt(k)), RInt(QuantDen))) :
        k \in -1..(QuantDen + 1) }
    \cup { RAdd(R[1], RDiv(RMul(QuantStep(R), RInt(k)), RInt(2))) : k \in 0..3 }
    \cup { RSub(R[2], RDiv(QuantStep(R), RInt(2))) }

\* _float_to_uint(x, x_min, x_max, bits)
Quantize ==
    /\ pc = "idle"
    /\ \E R \in Ranges : \E x \in QuantInputs(R) :
          result' = Val("uint", <<x, R, _float_to_uint(x, R[1], R[2], QuantBits)>>)
    /\ pc' = "done"
    /\ UNCHANGED << model, READ_FLAG, motor_state, MCU_ID, op, plan, cur, i, byte_list,
                    rxold, acc, first, inbuf, wire, port, log >>

\* _uint_to_float of the value _float_to_uint has returned
Dequantize ==
    /\ pc = "done"
    /\ result.k = "uint"
    /\ result' = Val("float", Append(result.v, _uint_to_float(result.v[3], result.v[2][1],
                                                              result.v[2][2], QuantBits)))
    /\ UNCHANGED << model, READ_FLAG, motor_state, MCU_ID, pc, op, plan, cur, i, byte_list,
                    rxold, acc, first, inbuf, wire, port, log >>

NextQuant ==
    \/ Quantize
    \/ Dequantize
    \/ Return

SpecQuant == Init /\ [][NextQuant]_vars

\* ------------------------------------------------------------------------
\* The scalar codec on its own: _format_data encodes an integer, then decodes the
\* bytes it has returned
\* ------------------------------------------------------------------------

IntTags == {"u8", "s8", "u16", "s16", "u32", "s32"}

\* the least and the greatest value of an integer tag
TagMin(f) ==
    IF ~TagSigned(f) THEN <<0, 0>>
    ELSE IF TagWidth(f) = 4 THEN <<-32768, 0>>
    ELSE <<-1, 65536 - Pow2(8 * TagWidth(f) - 1)>>

TagMax(f) ==
    IF TagWidth(f) = 4 THEN <<IF TagSigned(f) THEN 32767 ELSE 65535, 65535>>
    ELSE <<0, Pow2(IF TagSigned(f) THEN 8 * TagWidth(f) - 1 ELSE 8 * TagWidth(f)) - 1>>

ScalarValues(f) ==
    { WideAdd(b, k) : b \in {<<0, 0>>, TagMin(f), TagMax(f)}, k \in -ScalarSpread..ScalarSpread }

\* _format_data(data=[v], format=f, type="encode")
PackScalar ==
    /\ pc = "idle"
    /\ \E f \in IntTags : \E wv \in ScalarValues(f) :
          LET enc == _format_data_encode_int(wv, f)
          IN  IF enc.exc = ""
              THEN pc' = "packed" /\ result' = Val("packed", <<f, wv, enc.bytes>>)
              ELSE pc' = "done" /\ result' = Val(enc.exc, <<f, wv>>)
    /\ UNCHANGED << model, READ_FLAG, motor_state, MCU_ID, op, plan, cur, i, byte_list,
                    rxold, acc, first, inbuf, wire, port, log >>

\* _format_data(data=bytes, format=f, type="decode")[0] of the bytes just encoded
UnpackScalar ==
    /\ pc = "packed"
    /\ LET dec == _format_data_decode(result.v[3], result.v[1])
       IN  result' = IF dec.exc = "" /\ dec.rdata # <<>>
                     THEN Val("unpacked", Append(result.v, dec.rdata[1]))
                     ELSE Val("IndexError", result.v)
    /\ pc' = "done"
    /\ UNCHANGED << model, READ_FLAG, motor_state, MCU_ID, op, plan, cur, i, byte_list,
                    rxold, acc, first, inbuf, wire, port, log >>

NextScalar ==
    \/ PackScalar
    \/ UnpackScalar
    \/ Return

SpecScalar == Init /\ [][NextScalar]_vars

\* ------------------------------------------------------------------------
\* The frame transcoder on its own: a frame is packed and encoded as _send_can does,
\* and the envelope is decoded by _uart_to_can
\* ------------------------------------------------------------------------

\* _send_can up to the call of _write_port: byte_list holds the envelope
Pack ==
    /\ pc = "idle"
    /\ \E id_num \in CodecIds, cmd_mode \in CodecOpcodes, lo \in CodecTagBytes,
          hi \in CodecTagBytes, data \in CodecPayloads :
          /\ cur' = Xchg(id_num, cmd_mode, <<lo, hi>>, data, "none")
          /\ byte_list' = _send_can(model, id_num, cmd_mode, <<lo, hi>>, data)
    /\ pc' = "packed"
    /\ UNCHANGED << model, READ_FLAG, motor_state, MCU_ID, op, plan, i, rxold, acc, first,
                    inbuf, wire, port, log, result >>

\* _uart_to_can on the envelope, READ_FLAG being 1 as after a read: result holds cdata
Unpack ==
    /\ pc = "packed"
    /\ LET c == _uart_to_can(model, byte_list)
       IN  /\ READ_FLAG' = IF c = <<>> THEN -1 ELSE 1
           /\ result' = Val("cdata", c)
    /\ pc' = "unpacked"
    /\ UNCHANGED << model, motor_state, MCU_ID, op, plan, cur, i, byte_list, rxold, acc,
                    first, inbuf, wire, port, log >>

\* the next frame
Forget ==
    /\ pc = "unpacked"
    /\ pc' = "idle"
    /\ cur' = NoStep
    /\ byte_list' = <<>>
    /\ READ_FLAG' = 0
    /\ result' = Val("", <<>>)
    /\ UNCHANGED << model, motor_state, MCU_ID, op, plan, i, rxold, acc, first, inbuf, wire,
                    port, log >>

NextCodec ==
    \/ Pack
    \/ Unpack
    \/ Forget

SpecCodec == Init /\ [][NextCodec]_vars

\* ------------------------------------------------------------------------
\* The decoding of motion-status replies on its own: motor_enable has sent its frame
\* and _read_port has read the reply whole
\* ------------------------------------------------------------------------

Arrive ==
    /\ pc = "idle"
    /\ \E st \in StatusBytes, pf \in PosFields :
          byte_list' = Enc(model, 2, st, LineId, 0,
                           <<pf \div 256, pf % 256>> \o Tail0(StatusPayload, 2))
    /\ op' = [NoOp EXCEPT !.name = "motor_enable", !.id_num = LineId]
    /\ cur' = Head(motor_enable(LineId))
    /\ log' = << Event("send", Head(motor_enable(LineId))) >>
    /\ READ_FLAG' = -1
    /\ pc' = "drain"
    /\ UNCHANGED << model, motor_state, MCU_ID, plan, i, rxold, acc, first, inbuf, wire,
                    port, result >>

NextDecode ==
    \/ Arrive
    \/ Decode
    \/ Finish
    \/ Return

SpecDecode == Init /\ [][NextDecode]_vars

\* ------------------------------------------------------------------------
\* Properties
\* ------------------------------------------------------------------------

IsSend(x) == x.e = "send"

IsRead(x) == x.e = "read"

IsTransport(x) == x.e # "sleep"

\* the frames op has handed to the transport so far, and their opcodes
Sends == SelectSeq(log, IsSend)

SendOps == [k \in 1..Len(Sends) |-> Sends[k].f.cmd_mode]

ReadLog == SelectSeq(log, IsRead)

\* the sends and reads of op, in order
Transport == SelectSeq(log, IsTransport)

IsPrefix(a, b) == Len(a) <= Len(b) /\ \A k \in 1..Len(a) : a[k] = b[k]

\* the frames the code follows with no reply read: the restore frame of restore_config,
\* and any frame whose reply _reply_state would read, sent for an id_num beyond MOTOR_NUM
Unread(f) ==
    \/ f.cmd_mode = 8 /\ f.cmd_data = <<0, 3>>
    \/ f.id_num > MOTOR_NUM /\ f.cmd_mode \notin {0, 9, 17}

\* C1 as stated: every frame handed to the transport is followed by exactly one
\* reply read before the next frame is sent or the operation returns.
C1_EveryFrameRead ==
    \A k \in 1..Len(Transport) :
        /\ Transport[k].e = "send" =>
              IF k < Len(Transport) THEN Transport[k + 1].e = "read" ELSE pc # "done"
        /\ Transport[k].e = "read" => k > 1 /\ Transport[k - 1].e = "send"

\* C1 amended: every frame handed to the transport is followed by exactly one reply
\* read before the next frame or the return, except the opcode-8 restore frame of
\* restore_config and the frames _reply_state is called for with id_num > MOTOR_NUM,
\* which are followed by no reply read at all.
C1_FrameReadUnlessUnread ==
    \A k \in 1..Len(Transport) :
        /\ Transport[k].e = "send" =>
              IF Unread(Transport[k].f)
              THEN k < Len(Transport) => Transport[k + 1].e = "send"
              ELSE IF k < Len(Transport) THEN Transport[k + 1].e = "read" ELSE pc # "done"
        /\ Transport[k].e = "read" =>
              k > 1 /\ Transport[k - 1].e = "send" /\ ~Unread(Transport[k - 1].f)

\* restore_config has run to its end: stop, restore frame (unread), stop and get_id of 127
C1_Witness ==
    /\ pc = "done"
    /\ op.name = "restore_config"
    /\ SendOps = <<4, 8, 4, 0>>
    /\ Len(ReadLog) = 3

\* a _write_prop call to an index below 0x7000 that has returned without raising
WroteConfig ==
    pc = "done" /\ op.name = "_write_prop" /\ op.index < 28672 /\ result.k = "None"

\* C2 as stated: a successful write_property to an index below 0x7000 performs
\* exactly two round trips.
C2_TwoRoundTrips == WroteConfig => Len(Sends) = 2 /\ Len(ReadLog) = 2

\* C2 amended: a write_property to an index below 0x7000 that returns performs exactly
\* three exchanges, in this order: the write (opcode 8), a stop (opcode 4) and the
\* persist-commit (opcode 8, sub-command 2, zero payload); each is followed by a reply
\* read when id_num <= MOTOR_NUM.
C2_ThreeRoundTrips ==
    WroteConfig =>
        /\ SendOps = <<8, 4, 8>>
        /\ Sends[1].f.cmd_data = <<0, 0>>
        /\ Sends[3].f.cmd_data = <<0, 2>>
        /\ Sends[3].f.data = Zeros(8)
        /\ Len(ReadLog) = IF op.id_num <= MOTOR_NUM THEN 3 ELSE 0

\* the write, the stop and the commit have each been answered by a status reply
C2_Witness ==
    /\ WroteConfig
    /\ op.id_num <= MOTOR_NUM
    /\ first.a = "fresh"
    /\ acc = "fresh"
    /\ Len(ReadLog) = 3

\* a _write_prop call to an index below 0x7000 whose first reply read has failed
FirstTripFailed ==
    op.name = "_write_prop" /\ op.index < 28672 /\ first.a = "rejected"

\* C3 as stated: when the first round trip of a write_property to an index below
\* 0x7000 fails, the failure is surfaced and no further frame is sent.
C3_FailureStops ==
    FirstTripFailed => Len(Sends) <= 1 /\ (pc = "done" => result.k = "raise")

\* C3 amended: when the first round trip of a write_property to an index below 0x7000
\* fails, nothing is reported and the stop and commit frames are sent all the same: the
\* call returns None after the three frames, unless a transport write raises.
C3_FailureIgnored ==
    (pc = "done" /\ FirstTripFailed) =>
        \/ result = None /\ SendOps = <<8, 4, 8>>
        \/ result.k = "raise" /\ (port.openfail \/ port.retryfail) /\ IsPrefix(SendOps, <<8, 4, 8>>)

\* the first reply was missing or unusable and the call has returned after three frames
C3_Witness ==
    /\ pc = "done"
    /\ FirstTripFailed
    /\ result = None
    /\ Len(Sends) = 3

\* C4 as stated: set_id with no cached hardware identifier returns the failure and
\* hands no frame to the transport.
C4_NoFrameWithoutId ==
    (op.name = "set_id" /\ ~MCU_ID.bound) =>
        Sends = <<>> /\ (pc = "done" => result.k = "False")

\* C4 amended: set_id with no cached hardware identifier still hands frames to the
\* transport, first a stop frame (opcode 4), then the get_id query (opcode 0); the
\* opcode-7 frame is sent, and success returned, only with an 8-byte identifier cached.
C4_StopAndQueryFirst ==
    op.name = "set_id" =>
        /\ Len(SendOps) <= 3
        /\ Len(SendOps) >= 1 => SendOps[1] = 4
        /\ Len(SendOps) >= 2 => SendOps[2] = 0
        /\ Len(SendOps) >= 3 => SendOps[3] = 7 /\ MCU_ID.bound /\ Len(MCU_ID.v) = 8
        /\ result.k = "True" => Len(SendOps) = 3

\* set_id has ended with no identifier cached, after its stop frame and its query
C4_Witness ==
    /\ pc = "done"
    /\ op.name = "set_id"
    /\ ~MCU_ID.bound
    /\ SendOps = <<4, 0>>
    /\ result.k = "raise"

\* C5: when the get_id round trip has read a well-formed reply with opcode 0, its 8
\* payload bytes are cached as the hardware identifier (which a following set_id sends
\* in its opcode-7 frame).
C5_IdCached ==
    (pc = "done" /\ op.name = "get_id" /\ first.a = "fresh" /\ first.o = 0) =>
        /\ MCU_ID.bound
        /\ MCU_ID.v = Tail0(_uart_to_can(model, byte_list), 5)
        /\ result.k = "int"

\* what the caller of the operation gets when a transport write raises
RetryThrown == {Thrown("SerialException"), Thrown("ValueError")}

\* C6: after a failed transport write _write_port closes and reopens the connection
\* once and retries the write once; a failing retry propagates and nothing is written
\* a third time.
C6_OneRetry ==
    /\ port.writes <= 2
    /\ port.closes <= 1
    /\ port.opens <= 1
    /\ port.closes = port.opens
    /\ ~port.first => port.writes <= 1 /\ port.closes = 0
    /\ (port.first /\ pc # "reopen") => port.closes = 1
    /\ pc = "rewrite" => port.first /\ port.writes = 1 /\ ~port.openfail
    /\ (port.first /\ ~port.openfail /\ pc \notin {"reopen", "rewrite"}) => port.writes = 2
    /\ port.retryfail => port.writes = 2 /\ pc = "done" /\ result \in RetryThrown

\* both writes have failed: one close, one open, two writes, and the exception is out
C6_Witness ==
    /\ pc = "done"
    /\ port.retryfail
    /\ port.writes = 2
    /\ port.closes = 1
    /\ port.opens = 1
    /\ result.k = "raise"

\* C7: a reply to an earlier, abandoned exchange is never accepted as the reply of
\* a later exchange.
C7_NoStaleAccepted == acc # "stale"

\* operations of one exchange whose reply _reply_state reads
OneExchange == {"motor_enable", "motor_stop", "clear_error", "set_mode"}

\* the single reply of the operation was a well-formed frame of an opcode other than 2
WrongOpcode ==
    /\ pc = "done"
    /\ op.name \in OneExchange
    /\ op.id_num <= MOTOR_NUM
    /\ first.o \notin {-1, 2}

\* C8 as stated: a reply of an unexpected opcode makes the operation fail with
\* UnexpectedReply reported to the caller.
C8_UnexpectedReported == WrongOpcode => result.k = "raise"

\* C8 amended: a reply of an unexpected opcode is not reported: the operation returns
\* None, as it does on success, and READ_FLAG is left at 1.
C8_UnexpectedSilent == WrongOpcode => result = None /\ READ_FLAG = 1

\* motor_enable has returned after reading an opcode-0 reply
C8_Witness ==
    /\ WrongOpcode
    /\ op.name = "motor_enable"
    /\ first.o = 0
    /\ result = None

\* the opcode byte of a received envelope, per variant
OpcodeByte(m, env) == IF m = "DR" THEN env[5] ELSE Shr(env[3], 3)

\* a reply read is ending with a well-formed opcode-2 envelope in byte_list
ReadsStatus ==
    /\ pc = "drain"
    /\ inbuf.b = <<>>
    /\ Len(byte_list) = ReadNum
    /\ Len(byte_list) = (IF model = "DR" THEN 16 ELSE 17)
    /\ byte_list[DlcAt(model)] = 8
    /\ OpcodeByte(model, byte_list) = 2

\* C9: all 127 rows of motor_state are zero after construction, and a row changes
\* only in the step that ends a reply read with a well-formed envelope of opcode 2
\* and leaves READ_FLAG at 1; a missing, short, bad-DLC or other-opcode reply changes none.
C9_ChangedOnlyByStatus ==
    /\ \A k \in 1..MOTOR_NUM : Row(motor_state, k) = ZeroRow
    /\ [][ motor_state' # motor_state => ReadsStatus /\ READ_FLAG' = 1 ]_vars

\* a status reply has been decoded into a row
C9_Witness ==
    /\ pc = "step"
    /\ acc = "fresh"
    /\ READ_FLAG = 1
    /\ Row(motor_state, 1) = StateRow(_uart_to_can(model, byte_list))

\* the device id embedded in a received motion-status envelope (variant "DR")
EmbeddedId(env) == env[7]

\* C10: a decoded motion-status reply updates the row of the device id embedded in
\* the reply and no other row.
C10_OnlyEmbeddedRow ==
    [][ \A k \in 1..MOTOR_NUM :
            Row(motor_state', k) # Row(motor_state, k) => k = EmbeddedId(byte_list) ]_vars

\* the operation has ended after a single reply read, which decoded a frame of opcode
\* 21, and every transport write went through
ReadFaultFrame ==
    /\ pc = "done"
    /\ Len(ReadLog) = 1
    /\ first.o = 21
    /\ ~port.openfail
    /\ ~port.retryfail

\* C11: an operation that reads an opcode-21 fault-report frame does not raise or
\* abort because of it (the frame only produces a fault report).
C11_FaultFrameHarmless ==
    ReadFaultFrame =>
        /\ result # Val("raise", <<"TypeError">>)
        /\ op.catch => result.k # "False"

\* the frames set_zero sends for the mode cached when it was called
ZeroFrames == IF op.mode_status = 2 THEN <<4, 6, 3>> ELSE <<4, 6>>

\* C12: set_zero sends a stop frame (opcode 4), then the opcode-6 zeroing frame (payload
\* byte 0 = 1), then an enable frame (opcode 3) if and only if the mode cached for the
\* slot was Run (2) when set_zero was called, before the stop.
C12_ReenableIffRun ==
    op.name = "set_zero" =>
        /\ IsPrefix(SendOps, ZeroFrames)
        /\ \A k \in 1..Len(Sends) : Sends[k].f.id_num = op.id_num
        /\ Len(Sends) >= 2 => Sends[2].f.data = <<1, 0, 0, 0, 0, 0, 0, 0>>
        /\ (pc = "done" /\ result = None) => SendOps = ZeroFrames

\* set_zero has returned without the enable frame although the stop's own reply has
\* left mode Run in the slot: the mode read before the stop decided
C12_Witness ==
    /\ pc = "done"
    /\ op.name = "set_zero"
    /\ op.id_num = 1
    /\ op.mode_status = 0
    /\ Row(motor_state, 1).mode = 2
    /\ SendOps = <<4, 6>>
    /\ result = None

\* the property index a property frame carries in its payload bytes 0 and 1
FrameIndex(f) == f.data[1] + 256 * f.data[2]

\* opcode and property index of a frame (index 0 for a frame that is no property frame)
FrameKey(f) == << f.cmd_mode, IF f.cmd_mode \in {8, 9, 17, 18} THEN FrameIndex(f) ELSE 0 >>

\* the frames of set_pos: enable, mode at 0x7005, then 0x7018, 0x7017, 0x7016
SetPosFrames == << <<3, 0>>, <<18, 28677>>, <<18, 28696>>, <<18, 28695>>, <<18, 28694>> >>

\* C13: set_pos sends enable (opcode 3), the mode write of value 1 at index 0x7005, the
\* current-limit write at 0x7018, the velocity-limit write at 0x7017 and the
\* target-position write at 0x7016, in this order, each frame followed by its own reply
\* read before the next frame is sent (device ids up to MOTOR_NUM).
C13_FixedOrder ==
    (op.name = "set_pos" /\ op.id_num <= MOTOR_NUM) =>
        /\ Len(Sends) <= 5
        /\ \A k \in 1..Len(Sends) : FrameKey(Sends[k].f) = SetPosFrames[k]
        /\ Len(Sends) >= 2 => Sends[2].f.data[5] = 1
        /\ \A k \in 1..Len(Transport) :
              IF k % 2 = 1 THEN Transport[k].e = "send"
              ELSE Transport[k].e = "read" /\ Transport[k].f = Transport[k - 1].f
        /\ (pc = "done" /\ result = None) => Len(Sends) = 5 /\ Len(ReadLog) = 5

\* set_pos has returned after its five exchanges, the last one answered
C13_Witness ==
    /\ pc = "done"
    /\ op.name = "set_pos"
    /\ result = None
    /\ Len(Sends) = 5
    /\ Len(ReadLog) = 5
    /\ acc = "fresh"

\* C14 as stated: impedance_control hands exactly one frame to the transport, of
\* opcode 1, and sends no property-write frame.
C14_SingleFrame ==
    op.name = "impedance_control" =>
        /\ Len(Sends) <= 1
        /\ \A k \in 1..Len(Sends) : Sends[k].f.cmd_mode = 1
        /\ (pc = "done" /\ ~port.openfail /\ ~port.retryfail) => Len(Sends) = 1

\* the frames of impedance_control: enable, mode write at 0x7005, the opcode-1 frame
ImpedanceFrames == << <<3, 0>>, <<18, 28677>>, <<1, 0>> >>

\* C14 amended: impedance_control hands up to three frames to the transport, in this
\* order: enable (opcode 3), the property write of mode 0 at index 0x7005 (opcode 18),
\* and then the one opcode-1 frame; all three are sent unless a transport write fails,
\* and the call returns None in every case.
C14_ThreeFrames ==
    op.name = "impedance_control" =>
        /\ Len(Sends) <= 3
        /\ \A k \in 1..Len(Sends) : FrameKey(Sends[k].f) = ImpedanceFrames[k]
        /\ Len(Sends) >= 2 => Sends[2].f.data[5] = 0
        /\ pc = "done" => result = None
        /\ (pc = "done" /\ ~port.openfail /\ ~port.retryfail) => Len(Sends) = 3

\* impedance_control has returned after its three frames
C14_Witness ==
    /\ pc = "done"
    /\ op.name = "impedance_control"
    /\ SendOps = <<3, 18, 1>>
    /\ Len(ReadLog) = 3
    /\ result = None

\* restore_config has ended, every transport write went through, and the reply its
\* get_id query read last was a well-formed frame of opcode 0
RestoredWithId ==
    /\ pc = "done"
    /\ op.name = "restore_config"
    /\ ~port.openfail
    /\ ~port.retryfail
    /\ Len(Sends) >= 4
    /\ Sends[4].f.cmd_mode = 0
    /\ ReadLog[Len(ReadLog)].f = Sends[4].f
    /\ acc = "fresh"
    /\ OpcodeRead = 0

\* C15: restore_config(id) performs stop (opcode 4), the opcode-8 restore frame with
\* sub-command 3, the settling delay and then set_id(127, id), which ends with an
\* opcode-7 frame addressed to device 127 that carries id as the new id.
C15_RestoreThenSetId ==
    RestoredWithId =>
        /\ SendOps = <<4, 8, 4, 0, 7>>
        /\ Sends[2].f.cmd_data = <<0, 3>>
        /\ Sends[5].f.id_num = 127
        /\ Sends[5].f.cmd_data = <<0, op.id_num>>
        /\ result.k # "raise"

\* C16: get_posvel is a read-only query: it sends no frame that writes a device
\* register (opcode 8 or 18), so the current limit in register 0x7018 stays as set_pos
\* wrote it.
C16_PosvelReadOnly ==
    op.name = "get_posvel" =>
        \A k \in 1..Len(Sends) : Sends[k].f.cmd_mode \notin {8, 18}

\* get_volcur has ended, every transport write went through, and its first reply read
\* took a well-formed frame with a read opcode
VolcurFirstRead ==
    /\ pc = "done"
    /\ op.name = "get_volcur"
    /\ ~port.openfail
    /\ ~port.retryfail
    /\ first.a = "fresh"
    /\ first.o \in {9, 17}

\* C17: get_volcur performs two read_property round trips, at indices 0x302b and
\* 0x301e, and returns the pair [voltage, current] when both replies are well-formed
\* frames with a read opcode.
C17_TwoReads ==
    VolcurFirstRead =>
        /\ Len(Sends) = 2
        /\ FrameKey(Sends[1].f) = <<9, 12331>>
        /\ FrameKey(Sends[2].f) = <<9, 12318>>
        /\ Len(ReadLog) = 2
        /\ (acc = "fresh" /\ OpcodeRead \in {9, 17}) => result.k = "vol_cur"

\* the envelope of the frame in cur has been decoded
Decoded == pc = "unpacked" /\ byte_list = Envelope

\* C18: for every valid logical frame and for each variant, decoding the envelope that
\* encoding the frame produces returns the 13-byte frame that was encoded, and the read
\* flag stays 1.
C18_RoundTrip ==
    Decoded =>
        /\ result.v = _send_can_cdata(model, cur.id_num, cur.cmd_mode, cur.cmd_data, cur.data)
        /\ Len(result.v) = 13
        /\ Tail0(result.v, 5) = cur.data
        /\ READ_FLAG = 1

\* a frame with a non-zero last payload byte has made the round trip in variant "CAN"
C18_Witness ==
    /\ Decoded
    /\ model = "CAN"
    /\ cur.cmd_mode = 18
    /\ cur.id_num = 1
    /\ cur.data[8] = 255
    /\ result.v[13] = 255

\* the header fields as the receive path reads them out of cdata, in both variants:
\* mode = rdata[1], cmd_data = [rdata[3], rdata[2]], id_num = rdata[4]
HeaderRead(rdata) ==
    [cmd_mode |-> rdata[2], cmd_data |-> <<rdata[4], rdata[3]>>, id_num |-> rdata[5]]

\* C19: in each variant, the opcode, sender_tag and device id that the receive path
\* reads out of the header bytes are those that _send_can packed into them.
C19_HeaderInverted ==
    (Decoded /\ result.v # <<>>) =>
        HeaderRead(result.v) =
            [cmd_mode |-> cur.cmd_mode, cmd_data |-> cur.cmd_data, id_num |-> cur.id_num]

\* the length of a serial envelope of a variant
EnvLen(m) == IF m = "DR" THEN 16 ELSE 17

\* an envelope of the wrong length for the variant, or with a DLC marker other than 8
Malformed(m, env) == Len(env) # EnvLen(m) \/ env[DlcAt(m)] # 8

\* enable or stop has ended after reading bytes that are no envelope of the variant
ReadMalformed ==
    /\ pc = "done"
    /\ op.name \in OneExchange
    /\ Len(ReadLog) = 1
    /\ byte_list # <<>>
    /\ Malformed(model, byte_list)

\* C20 as stated: decoding a reply envelope of the wrong length or with a bad DLC
\* marker yields the MalformedFrame failure, reported to the caller.
C20_MalformedReported == ReadMalformed => result.k = "raise"

\* C20 amended: a reply of the wrong length or with a bad DLC marker is never processed
\* further: the read that ends with it changes no slot of motor_state and leaves
\* READ_FLAG at -1; but no failure is reported: the operation returns None as it does
\* on success.
C20_MalformedDropped ==
    /\ [](ReadMalformed => result = None /\ READ_FLAG = -1 /\ acc = "rejected")
    /\ [][ (pc = "drain" /\ inbuf.b = <<>> /\ pc' # "drain" /\ Malformed(model, byte_list))
              => motor_state' = motor_state /\ READ_FLAG' = -1 ]_vars

\* a reply with a corrupted DLC marker has been read whole, and the operation is over
C20_Witness ==
    /\ ReadMalformed
    /\ Len(byte_list) = EnvLen(model)
    /\ byte_list[DlcAt(model)] = 0
    /\ result = None

\* the status byte and the position field of a motion-status envelope (variant "DR")
StatusByte(env) == env[6]

PosField(env) == env[9] * 256 + env[10]

\* a motion-status reply has just been decoded into the slot of its embedded id
JustDecoded == pc = "step" /\ acc = "fresh" /\ cur.rd = "_reply_state" /\ READ_FLAG = 1

\* C21: after decoding a motion-status reply, the stored fault flag of the reply's slot
\* is 1 exactly when one of bits 0-5 of the status field is set, and the stored mode
\* equals bits 6-7 of that field.
C21_FaultAndMode ==
    JustDecoded =>
        LET row == Row(motor_state, Slot(EmbeddedId(byte_list)))
            st  == StatusByte(byte_list)
        IN  /\ row.fault = (IF st % 64 # 0 THEN 1 ELSE 0)
            /\ row.mode = (st \div 64) % 4

\* a reply with fault bit 0 set and mode 2 has been decoded
C21_Witness ==
    /\ JustDecoded
    /\ StatusByte(byte_list) = 129
    /\ Row(motor_state, LineId).fault = 1
    /\ Row(motor_state, LineId).mode = 2

\* a _write_prop or _read_prop call that has handed its first frame to the transport
PropFrameSent == op.name \in {"_write_prop", "_read_prop"} /\ Len(Sends) >= 1

\* C22: _write_prop and _read_prop choose the opcode by the index alone: below 0x7000
\* the first frame has opcode 8 (write) or 9 (read) and payload byte 2 holds the code of
\* the type tag (2 for "u16"); from 0x7000 on it has opcode 18 (write) or 17 (read) and
\* payload byte 2 is 0; in both cases payload bytes 0 and 1 hold the index, low byte
\* first.
C22_OpcodeByIndex ==
    PropFrameSent =>
        LET f == Sends[1].f
            w == op.name = "_write_prop"
        IN  /\ f.cmd_mode = (IF op.index < 28672 THEN (IF w THEN 8 ELSE 9)
                                                  ELSE (IF w THEN 18 ELSE 17))
            /\ f.data[1] = op.index % 256
            /\ f.data[2] = op.index \div 256
            /\ f.data[3] = (IF op.index < 28672 THEN type_index(op.data_type) ELSE 0)
            /\ op.index < 28672 => op.data_type \in {"u16", "f"}
            /\ Len(f.data) = 8

\* a read of index 0x7000 has been sent with opcode 17 and answered
C22_Witness ==
    /\ pc = "done"
    /\ op.name = "_read_prop"
    /\ op.index = 28672
    /\ PropFrameSent
    /\ FrameKey(Sends[1].f) = <<17, 28672>>
    /\ Len(ReadLog) = 1

\* _send_can has built a frame and handed it to _can_to_uart
FrameHanded == pc \in {"write", "reopen", "rewrite"}

\* C23: every frame a public operation hands to the transcoder has a device id of at
\* most 127 and a payload of exactly 8 bytes, whatever id_num the caller passes.
C23_FrameInRange == FrameHanded => cur.id_num <= MOTOR_NUM /\ Len(cur.data) = 8

\* the quantizer has returned for the input x over the range R
Quantized == pc = "done" /\ result.k \in {"uint", "float"}

\* C25: _float_to_uint clamps: an x above x_max yields 2^bits - 1, an x below x_min
\* yields 0, and the result always lies in 0..2^bits - 1.
C25_Clamps ==
    Quantized =>
        LET x == result.v[1]
            R == result.v[2]
            u == result.v[3]
        IN  /\ RLess(R[2], x) => u = Pow2(QuantBits) - 1
            /\ RLess(x, R[1]) => u = 0
            /\ u \in 0..(Pow2(QuantBits) - 1)

\* an input above the position range has been quantized to 65535
C25_Witness ==
    /\ Quantized
    /\ result.v[2] = <<P_MIN, P_MAX>>
    /\ RLess(P_MAX, result.v[1])
    /\ result.v[3] = 65535

\* the quantizer result has been converted back
Dequantized == pc = "done" /\ result.k = "float"

\* C26: for x inside the range, _uint_to_float(_float_to_uint(x)) is never greater than
\* x and is less than one step (x_max - x_min)/(2^bits - 1) below it.
C26_WithinOneStep ==
    Dequantized =>
        LET x == result.v[1]
            R == result.v[2]
            y == result.v[4]
        IN  (~RLess(x, R[1]) /\ ~RLess(R[2], x)) =>
                /\ ~RLess(x, y)
                /\ RLess(RSub(x, y), QuantStep(R))

\* an input strictly between two steps has come back smaller than it went in
C26_Witness ==
    /\ Dequantized
    /\ ~RLess(result.v[1], result.v[2][1])
    /\ ~RLess(result.v[2][2], result.v[1])
    /\ RLess(result.v[4], result.v[1])

\* the position _reply_state has just stored for the reply in byte_list
DecodedPos == Row(motor_state, Slot(EmbeddedId(byte_list))).pos

\* C27 as stated: the position field 0x8000 decodes, under [-12.5, 12.5] over 16 bits,
\* to exactly 0.0 rad.
C27_MidIsZero == (JustDecoded /\ PosField(byte_list) = 32768) => DecodedPos[1] = 0

\* C27 amended: the position field 0x8000 decodes to 25*32768/65535 - 12.5 = 5/26214 rad
\* (about 0.00019 rad, half a step above zero), stored in degrees; no position field
\* decodes to exactly zero, 0x7FFF lying half a step below it.
C27_MidIsHalfStep ==
    JustDecoded =>
        /\ PosField(byte_list) = 32768 => DecodedPos = <<5, 26214, "RAD_DEG">>
        /\ PosField(byte_list) = 32767 => DecodedPos = <<-5, 26214, "RAD_DEG">>
        /\ DecodedPos[1] # 0

\* a motion-status reply with the position field 0x8000 has been decoded
C27_Witness ==
    /\ JustDecoded
    /\ PosField(byte_list) = 32768
    /\ DecodedPos[1] = 5

\* a _write_prop call whose data_type is none of the seven tags
UnknownTagWrite == op.name = "_write_prop" /\ type_index(op.data_type) = -1

\* C24: the encode direction of _format_data, given a type tag outside
\* {u8, s8, u16, s16, u32, s32, f}, fails: it yields no bytes at all; and a _write_prop
\* called with such a tag hands no frame to the transport and ends with an exception.
C24_UnknownTagNoFrame ==
    UnknownTagWrite =>
        /\ _format_data_encode(Num(27), op.data_type) = [exc |-> "", bytes |-> <<>>]
        /\ Len(log) = 0
        /\ pc \in {"step", "done"}
        /\ pc = "done" => result.k = "raise"

\* a write to index 0x7000 with the tag u64 has ended with an exception, no frame sent
C24_Witness ==
    /\ pc = "done"
    /\ UnknownTagWrite
    /\ op.index = 28672
    /\ result = Val("raise", <<"IndexError">>)
    /\ Len(log) = 0

\* C28: for every integer tag and every value the tag can represent (0, the least and
\* the greatest among them), _format_data encodes the value into at least 4 bytes, the
\* bytes beyond the width of the tag being zero, and decoding those bytes with the same
\* tag yields the value again; only a value outside the tag is refused.
C28_ScalarRoundTrip ==
    /\ result.k \in {"packed", "unpacked"} =>
          /\ Len(result.v[3]) >= 4
          /\ \A k \in (TagWidth(result.v[1]) + 1)..Len(result.v[3]) : result.v[3][k] = 0
    /\ (pc = "done" /\ result.k \notin {"", "None"}) =>
          IF InTagRange(result.v[2], result.v[1])
          THEN result.k = "unpacked" /\ result.v[4] = result.v[2]
          ELSE result.k = "struct.error"

\* -128 has been packed as s8 into 0x80 and three zero bytes, and unpacked again
C28_Witness ==
    /\ pc = "done"
    /\ result.k = "unpacked"
    /\ result.v[1] = "s8"
    /\ result.v[2] = TagMin("s8")
    /\ result.v[3] = <<128, 0, 0, 0>>
    /\ result.v[4] = <<-1, 65408>>

\* a _write_prop call to an index below 0x7000
ConfigWrite == op.name = "_write_prop" /\ op.index < 28672 /\ type_index(op.data_type) # -1

\* C29: _write_prop to an index below 0x7000 sends the write (opcode 8), the stop
\* (opcode 4) and the commit (opcode 8, sub-command 2 in the sender tag, all-zero
\* payload) in this order, and returns only after the reply read of the commit frame
\* (device ids up to MOTOR_NUM).
C29_CommitReadBeforeReturn ==
    ConfigWrite =>
        /\ IsPrefix(SendOps, <<8, 4, 8>>)
        /\ Len(Sends) = 3 => Sends[3].f.cmd_data = <<0, 2>> /\ Sends[3].f.data = Zeros(8)
        /\ (pc = "done" /\ result = None /\ op.id_num <= MOTOR_NUM) =>
              /\ Len(Sends) = 3
              /\ Transport[Len(Transport)].e = "read"
              /\ Transport[Len(Transport)].f = Sends[3].f

\* a write to index 0x6FFF has returned after its commit frame was answered and the
\* answer read
C29_Witness ==
    /\ pc = "done"
    /\ ConfigWrite
    /\ op.index = 28671
    /\ result = None
    /\ Len(Sends) = 3
    /\ Transport[Len(Transport)].e = "read"
    /\ READ_FLAG = 1

\* the operation is back with its read marked failed
ReadFailed == pc = "done" /\ READ_FLAG = -1 /\ acc = "rejected"

\* C30: when no reply byte ever arrives, an operation that awaits a reply stops polling
\* after its budget of at most 5000 passes and returns with the read marked failed; it
\* never blocks forever.
C30_PollingEnds ==
    /\ [](i \in 0..PollBudget /\ PollBudget <= 5000)
    /\ [][pc = "poll" /\ pc' = "poll" => i' < i]_vars
    /\ (pc = "poll") ~> ReadFailed

\* the budget has run out with nothing read and the operation has returned
C30_Witness ==
    /\ ReadFailed
    /\ i = 0
    /\ byte_list = <<>>
    /\ Len(ReadLog) = 1

\* a reply read has ended and what it read is one well-formed motion-status envelope of
\* the variant: its length, its DLC marker and opcode 2
ReadWhole ==
    /\ pc = "step"
    /\ Len(ReadLog) >= 1
    /\ Len(byte_list) = EnvLen(model)
    /\ byte_list[DlcAt(model)] = 8
    /\ OpcodeByte(model, byte_list) = 2

\* C31: in each variant, when the reply arrives as one well-formed envelope of the
\* variant's length (16 bytes in "DR", 17 bytes in "CAN"), the receive path accepts it
\* and decodes it into a frame instead of marking the read failed.
C31_WholeEnvelopeAccepted == ReadWhole => READ_FLAG = 1 /\ acc \in {"fresh", "stale"}

\* the opcode-1 frames impedance_control has sent
ImpedanceSends == { k \in 1..Len(Sends) : Sends[k].f.cmd_mode = 1 }

\* the two bytes b[k], b[k + 1] read as one value, high byte first
Field(b, k) == b[k] * 256 + b[k + 1]

\* C32: the opcode-1 frame of impedance_control carries, as 16-bit quantized values with
\* the high byte first, the position in payload bytes 0-1, the velocity in bytes 2-3, kp
\* in bytes 4-5 and kd in bytes 6-7, and the 16-bit quantized feedforward torque in the
\* two sender-tag bytes.
C32_ImpedanceLayout ==
    op.name = "impedance_control" =>
        \A k \in ImpedanceSends :
            LET f == Sends[k].f
                a == op.args
            IN  /\ Len(f.data) = 8
                /\ Field(f.data, 1) = _float_to_uint(Plain(DEG_RAD(a[1])), P_MIN, P_MAX, QuantBits)
                /\ Field(f.data, 3) = _float_to_uint(Plain(R_MIN_RAD_S(a[2])), V_MIN, V_MAX, QuantBits)
                /\ Field(f.data, 5) = _float_to_uint(RInt(a[4]), KP_MIN, KP_MAX, QuantBits)
                /\ Field(f.data, 7) = _float_to_uint(RInt(a[5]), KD_MIN, KD_MAX, QuantBits)
                /\ f.cmd_data[2] * 256 + f.cmd_data[1]
                      = _float_to_uint(RInt(a[3]), T_MIN, T_MAX, QuantBits)
                /\ \A j \in 1..8 : f.data[j] \in 0..255

\* impedance_control(1, 90, 100, 6, 250, 1) has sent its opcode-1 frame: position 0x9015,
\* velocity 0xACAD, kp 0x7FFF, kd 0x3333, torque 0xBFFF
C32_Witness ==
    /\ pc = "done"
    /\ op.name = "impedance_control"
    /\ op.args = <<90, 100, 6, 250, 1>>
    /\ Len(Sends) = 3
    /\ Sends[3].f.cmd_mode = 1
    /\ Sends[3].f.data = <<144, 21, 172, 173, 127, 255, 51, 51>>
    /\ Sends[3].f.cmd_data = <<255, 191>>

\* C33: every byte of every envelope handed to the transport write is in 0..255, in both
\* variants, for every opcode 0..31, every sender-tag byte 0..255 and every device id
\* 0..127.
C33_EnvelopeBytes ==
    pc = "packed" => \A k \in 1..Len(byte_list) : byte_list[k] \in 0..255

\* get_posvel has returned a [position, velocity] pair
PosvelPair == pc = "done" /\ op.name = "get_posvel" /\ result.k = "pos_vel"

\* C34: get_posvel(id) returns a [position, velocity] pair only if the row of id was
\* updated by a motion-status reply decoded during that same call; when no such reply
\* was decoded (no reply, another opcode, a reply of another device id, an id outside
\* 1..127) it returns no pair.
C34_PairOnlyWhenFresh ==
    PosvelPair =>
        /\ acc \in {"fresh", "stale"}
        /\ OpcodeRead = 2
        /\ EmbeddedId(byte_list) = op.id_num
        /\ op.id_num \in 1..MOTOR_NUM

\* C35: a motion-status reply whose embedded device id is 0 or greater than 127 modifies
\* no row of motor_state; in particular the row of device 127 is modified only by
\* replies whose embedded id is 127.
C35_NoRowForIdOutOfRange ==
    [][ /\ (ReadsStatus /\ EmbeddedId(byte_list) \notin 1..MOTOR_NUM)
            => motor_state' = motor_state
        /\ Row(motor_state', MOTOR_NUM) # Row(motor_state, MOTOR_NUM)
            => EmbeddedId(byte_list) = MOTOR_NUM ]_vars

\* a reply read has ended with the opening bytes of a well-formed 16-byte reply, sent
\* in answer to the frame of this exchange, in byte_list
ReadOfReply ==
    /\ model = "DR"
    /\ pc = "step"
    /\ Len(ReadLog) >= 1
    /\ ~rxold
    /\ byte_list # <<>>
    /\ IsPrefix(byte_list, Status(model, LineId, 128))

\* C36: a well-formed 16-byte reply is read as one frame however its arrival
\* interleaves with the polls: when its bytes arrive in two bursts and the reader finds
\* the input buffer empty in between, the read still returns all 16 bytes as a
\* successful read.
C36_TwoBurstsOneFrame ==
    ReadOfReply => Len(byte_list) = 16 /\ READ_FLAG = 1

\* the operation in progress writes run-time parameters only: _write_prop at an index
\* from 0x7000 on, set_mode, set_pos, set_vel or set_torque
RamWrite ==
    \/ op.name = "_write_prop" /\ op.index >= 28672
    \/ op.name \in {"set_mode", "set_pos", "set_vel", "set_torque"}

\* the frames a single write to an index from 0x7000 on hands to the transport
SingleWrite == op.name \in {"_write_prop", "set_mode"}

\* C37: a _write_prop to an index from 0x7000 on (set_mode and every write made by
\* set_pos, set_vel and set_torque included) performs exactly one round trip, one
\* opcode-18 frame followed by one reply read (device ids up to MOTOR_NUM), and never
\* sends a stop frame (opcode 4), so it does not disable an enabled motor.
C37_OneTripNoStop ==
    RamWrite =>
        /\ \A k \in 1..Len(Sends) :
              /\ Sends[k].f.cmd_mode \in {3, 18}
              /\ Sends[k].f.cmd_mode = 18 =>
                    FrameIndex(Sends[k].f) >= 28672 /\ Sends[k].f.cmd_data = <<0, 0>>
        /\ SingleWrite => IsPrefix(SendOps, <<18>>)
        /\ op.id_num <= MOTOR_NUM =>
              /\ \A k \in 1..Len(Transport) :
                    IF k % 2 = 1 THEN Transport[k].e = "send"
                    ELSE Transport[k].e = "read" /\ Transport[k].f = Transport[k - 1].f
              /\ (pc = "done" /\ result = None) => Len(ReadLog) = Len(Sends)
        /\ (pc = "done" /\ result = None /\ SingleWrite) => Len(Sends) = 1

\* a write to index 0x7000 has returned after its single frame was answered and read
C37_Witness ==
    /\ pc = "done"
    /\ op.name = "_write_prop"
    /\ op.index = 28672
    /\ op.id_num <= MOTOR_NUM
    /\ result = None
    /\ SendOps = <<18>>
    /\ Len(ReadLog) = 1
    /\ acc = "fresh"
    /\ READ_FLAG = 1

=============================================================================
